---- MODULE Spec2Model ----
(***************************************************************************)
(* A model of pyinj's Container (src/src/pyinj/container.py): resolution   *)
(* of tokens by get/aget from concurrent flows (OS threads and asyncio     *)
(* tasks of one event loop), the per-token singleton locks, the            *)
(* resolution guard, the context-local overrides and the request frames.   *)
(*                                                                         *)
(* A flow runs one top-level get/aget at a time.  Its call stack holds one *)
(* frame per get/aget that is inside its resolution guard; a provider may  *)
(* resolve one further token (its dependency), which pushes a frame.       *)
(***************************************************************************)
EXTENDS Integers, Sequences, FiniteSets, TLC

----------------------------------------------------------------------------
(* Bounds of the model *)

\* number of concurrent flows
NFlows == 2
\* top-level get/aget calls each flow may issue
MaxOps == 1
\* top-level calls of the flow of the sequential scenarios
MaxSeqOps == 3
\* top-level calls of the flow of the override scenarios
MaxOvOps == 2
\* use_overrides blocks a flow nests in the nesting scenarios
MaxOvNest == 2
\* container-level operations (register, register_value, clear, get by
\* specifier, teardown) logged in one run
MaxEvents == 4
\* task cancellations delivered in one run
MaxCancels == 1
\* nesting depth of request_scope / use_overrides blocks
MaxNest == 1
\* request_scope blocks a flow may enter in one run
MaxBlocks == 2
\* calls that a flow makes on the reference container
MaxDiOps == 2

----------------------------------------------------------------------------
(* Values *)

Tokens == {"A", "B", "C"}
Scopes == {"SINGLETON", "REQUEST", "TRANSIENT"}
Flows  == 1 .. NFlows

\* Python's None: "no instance"
None == 0
\* spacing of the instance identities of distinct tokens
Stride == 100
\* identities at and above Base(t) + OvBase are override values, not built by a provider
OvBase == 50

NoOne  == 0
NoDep  == "-"
NoExc  == [kind |-> "none", tok |-> NoDep, chain |-> <<>>]
Unset  == [set |-> FALSE, keys |-> {}, map |-> [t \in {"A", "B", "C"} |-> None]]

Base(t) == CASE t = "A" -> Stride [] t = "B" -> 2 * Stride [] OTHER -> 3 * Stride

\* the n-th object built by the provider of t: Python object identity
Inst(t, n) == Base(t) + n

\* a value bound by the d-th use_overrides block
OvInst(t, d) == Base(t) + OvBase + d

NoProvider == [kind |-> "none", dep |-> NoDep, out |-> "ok", cap |-> "none", fail |-> "ok"]

InSeq(x, s) == \E i \in 1 .. Len(s) : s[i] = x

EmptyMap == [t \in Tokens |-> None]

----------------------------------------------------------------------------
VARIABLES
    kind,          \* flow -> "thread" | "task" | "child" (a task spawned by flow 1)
    tscope,        \* token -> its own scope (Token.scope)
    providers,     \* Container._providers: token -> provider (kind "none": absent)
    token_scopes,  \* Container._token_scopes: token -> scope | "unset"
    singletons,    \* Container._singletons: token -> instance | None
    resources,     \* ContextualContainer._resources: [inst, cap, fail]
    sync_lock,     \* Container._singleton_locks: token -> holder
    async_lock,    \* Container._async_locks: token -> holder
    calls,         \* token -> number of invocations of its provider
    stack,         \* flow -> frames of the get/aget calls in progress
    rstack,        \* flow -> _resolution_stack (ContextVar)
    ovr,           \* flow -> Container._overrides (ContextVar): [set, keys, map]
    ovsaved,       \* flow -> open use_overrides blocks: [prev, tok, val], innermost last
    frames,        \* flow -> open request frames [id, cache], innermost last;
                   \* SessionOf(flow) -> open session frames
    nblocks,       \* flow -> request_scope blocks entered so far
    exc,           \* flow -> exception propagating in the flow
    outs,          \* flow -> outcomes of its top-level calls, in order
    running,       \* the task that occupies the event loop
    ncancel,       \* cancellations delivered
    hist,          \* the container-level operations and cleanup invocations, in order
    teardown,      \* the aclose in progress: [by, tasks, jobs]
    strreg,        \* what register stored under string keys: [prov, scope]
    stats,         \* Container._cache_hits, Container._cache_misses: [hits, misses]
    twin,          \* the comparison of get and aget on one state: [phase, tok, pre, post]
    di             \* the reference container di.core.Container:
                   \* [singletons, inflight, tasks, pc, outs]

cfgvars  == <<kind, tscope, providers, token_scopes, strreg, di, twin>>
lockvars == <<sync_lock, async_lock>>
ctxvars  == <<ovr, ovsaved, frames, nblocks>>
vars == <<kind, tscope, providers, token_scopes, singletons,
          resources, sync_lock, async_lock, calls, stack, rstack, ovr,
          ovsaved, frames, nblocks, exc, outs, running, ncancel, hist, teardown, strreg, di, stats, twin>>

----------------------------------------------------------------------------
(* Pure helpers of the container *)

\* a scope lookup whose default is SINGLETON instead of the token's scope
EffScope_DefaultSingleton(t) ==
    IF token_scopes[t] # "unset" THEN token_scopes[t] ELSE "SINGLETON"

\* a scope lookup that ignores the scope given to register
EffScope_TokenOnly(t) == tscope[t]

\* Container._get_scope
EffScope(t) ==
    IF token_scopes[t] # "unset" THEN token_scopes[t] ELSE tscope[t]

\* an override lookup that lets a cached singleton win
GetOverride_CacheFirst(f, t) ==
    IF ~ovr[f].set \/ singletons[t] # None THEN None ELSE ovr[f].map[t]

\* an override lookup in one dictionary shared by all flows
GetOverride_Shared(f, t) ==
    IF \E g \in Flows : ovr[g].set /\ ovr[g].map[t] # None
    THEN ovr[CHOOSE g \in Flows : ovr[g].set /\ ovr[g].map[t] # None].map[t]
    ELSE None

\* Container._get_override: the ContextVar holds None (set = FALSE) or a dict
GetOverride(f, t) ==
    IF ~ovr[f].set THEN None ELSE ovr[f].map[t]

\* the instance the active request frame, the innermost one, caches for t
FrameLookup(fs, t) ==
    IF fs = <<>> THEN None ELSE fs[Len(fs)].cache[t]

\* the flow whose scope frames flow f sees: a task spawned inside a scope
\* block runs in a copy of the context of the flow that spawned it, flow 1,
\* and the copy refers to the same frames
CtxOf(f) == IF kind[f] = "child" THEN 1 ELSE f

\* the place of the session frames of flow f in the frame table
SessionOf(f) == NFlows + CtxOf(f)

\* ContextualContainer.resolve_from_context: the singleton cache for a
\* SINGLETON token, the active request frame for a REQUEST token, the active
\* session frame for a SESSION token, nothing for a TRANSIENT one
ResolveFromContext(f, t) ==
    CASE EffScope(t) = "SINGLETON" -> singletons[t]
      [] EffScope(t) = "REQUEST"   -> FrameLookup(frames[CtxOf(f)], t)
      [] EffScope(t) = "SESSION"   -> FrameLookup(frames[SessionOf(f)], t)
      [] OTHER                     -> None

\* a guard that looks only at the token most recently entered
InGuard_TopOnly(f, t) ==
    rstack[f] # <<>> /\ rstack[f][Len(rstack[f])] = t

\* Container._resolution_guard: the token is under resolution on this flow
InGuard(f, t) == InSeq(t, rstack[f])

\* a guard that restores the stack on the success path only
GuardReset_NoFinally(f, fr, ok) == IF ok THEN fr.saved ELSE rstack[f]

\* Container._resolution_guard: _resolution_stack.reset(reset_token) on the
\* way out of frame fr, by return (ok) or by exception
GuardReset(f, fr, ok) == fr.saved

\* a lock table that hands every caller a lock of its own
SyncLockFree_NoExclusion(t) == TRUE

\* Container._singleton_locks[token] is free
SyncLockFree(t) == sync_lock[t] = NoOne

\* an asyncio.Lock that never makes a task wait
AsyncLockFree_NoExclusion(t) == TRUE

\* Container._async_locks[token] is free
AsyncLockFree(t) == async_lock[t] = NoOne

LockFree(m, t) == IF m = "get" THEN SyncLockFree(t) ELSE AsyncLockFree(t)

IsTask(f) == kind[f] \in {"task", "child"}

\* a task runs only while it occupies the event loop; a thread runs freely
CanRun(f) == ~IsTask(f) \/ running \in {NoOne, f}

Top(f) == stack[f][Len(stack[f])]
Below(f) == SubSeq(stack[f], 1, Len(stack[f]) - 1)
Last(s) == s[Len(s)]

\* the identities of the frames in place g of the frame table
FrameIds(g) == [i \in 1 .. Len(frames[g]) |-> frames[g][i].id]

\* the identities of the request frames open on flow f
BlkIds(f) == FrameIds(CtxOf(f))

\* the identities of the session frames open on flow f
SesIds(f) == FrameIds(SessionOf(f))

----------------------------------------------------------------------------
(* Outcomes, return and raise *)

Err(k, t, ch) == [kind |-> k, tok |-> t, chain |-> ch]

\* the record of a top-level call: the token asked for, the value returned or
\* the error raised (with the token and chain it carries), and the request
\* and session frames open around the call
Outcome(f, c, t, v, e, ch) ==
    [call |-> c, tok |-> t, val |-> v, err |-> e, chain |-> ch, blk |-> BlkIds(f),
     ses |-> SesIds(f)]

Pending(f) == outs[f] # <<>> /\ Last(outs[f]).err = "pending"

\* the call in progress, if any, ends as r; else a call ends as r at once
Logged(f, r) ==
    IF Pending(f) THEN [outs EXCEPT ![f][Len(outs[f])] = r]
    ELSE [outs EXCEPT ![f] = Append(@, r)]

\* the call for token t returns v to what is below it: the provider that
\* asked for it, or the caller of the top-level call
ReturnTo(f, s, t, v) ==
    /\ stack' = [stack EXCEPT ![f] =
                    IF s = <<>> THEN <<>> ELSE [s EXCEPT ![Len(s)].depdone = TRUE]]
    /\ outs' = IF s = <<>> THEN Logged(f, Outcome(f, t, t, v, "none", <<>>)) ELSE outs
    /\ running' = IF IsTask(f) THEN (IF s = <<>> THEN NoOne ELSE f) ELSE running
    /\ exc' = exc

\* the call for token e.tok raises e into what is below it
RaiseTo(f, s, e) ==
    /\ stack' = [stack EXCEPT ![f] = s]
    /\ exc' = [exc EXCEPT ![f] = e]
    /\ outs' = IF s = <<>> /\ ~Pending(f)
               THEN Logged(f, Outcome(f, e.tok, e.tok, None, "pending", <<>>))
               ELSE outs
    /\ running' = IF IsTask(f) THEN f ELSE running

\* a store that falls back on the singleton cache when no frame is active
StoreInContext_Fallback(f, t, v) ==
    LET g == IF EffScope(t) = "SESSION" THEN SessionOf(f) ELSE CtxOf(f)
    IN IF EffScope(t) \in {"REQUEST", "SESSION"} /\ frames[g] # <<>>
       THEN /\ frames' = [frames EXCEPT ![g][Len(frames[g])].cache[t] = v]
            /\ UNCHANGED singletons
       ELSE IF EffScope(t) = "TRANSIENT" THEN UNCHANGED <<singletons, frames>>
       ELSE /\ singletons' = [singletons EXCEPT ![t] = v]
            /\ UNCHANGED frames

\* ContextualContainer.store_in_context: a TRANSIENT instance is never
\* cached, a REQUEST or SESSION one only when a frame of that kind is active
StoreInContext(f, t, v) ==
    CASE EffScope(t) = "SINGLETON" ->
            /\ singletons' = [singletons EXCEPT ![t] = v]
            /\ UNCHANGED frames
      [] EffScope(t) = "REQUEST" ->
            /\ frames' = IF frames[CtxOf(f)] = <<>> THEN frames
                         ELSE [frames EXCEPT ![CtxOf(f)][Len(frames[CtxOf(f)])].cache[t] = v]
            /\ UNCHANGED singletons
      [] EffScope(t) = "SESSION" ->
            /\ frames' = IF frames[SessionOf(f)] = <<>> THEN frames
                         ELSE [frames EXCEPT ![SessionOf(f)][Len(frames[SessionOf(f)])].cache[t] = v]
            /\ UNCHANGED singletons
      [] OTHER -> UNCHANGED <<singletons, frames>>
----------------------------------------------------------------------------
(* Container.get / Container.aget *)

\* whether a task keeps the event loop after invoking provider p in mode m:
\* awaiting an async provider suspends it
AfterInvoke(f, m, p) ==
    IF IsTask(f) THEN (IF m = "aget" /\ p.kind = "async" THEN NoOne ELSE f) ELSE running

\* a top-level call that did not end at once is in progress
Started(f, s, t) ==
    IF s = <<>> THEN Logged(f, Outcome(f, t, t, None, "pending", <<>>)) ELSE outs

\* counters that an aget leaves alone
Counted_AgetSilent(m, hit) ==
    IF m = "aget" THEN stats
    ELSE IF hit THEN [stats EXCEPT !.hits = @ + 1] ELSE [stats EXCEPT !.misses = @ + 1]

\* self._cache_hits += 1 when an override or the context answers the call
\* in mode m, self._cache_misses += 1 when they do not
Counted(m, hit) ==
    IF hit THEN [stats EXCEPT !.hits = @ + 1] ELSE [stats EXCEPT !.misses = @ + 1]

\* get/aget from the call to the first point where it may block: the
\* override and context lookups, the resolution guard, the provider lookup
\* and, outside SINGLETON scope, the invocation of the provider.
\* s is the flow's stack below the new call.
Enter(f, t, m, s) ==
    LET ov  == GetOverride(f, t)
        ctx == ResolveFromContext(f, t)
        p   == providers[t]
        fr(pc, id) == [tok |-> t, mode |-> m, pc |-> pc, saved |-> rstack[f],
                       lock |-> "none", inst |-> id, prov |-> p, depdone |-> FALSE]
    IN
    (stats' = Counted(m, ov # None \/ ctx # None)) /\
    IF ov # None THEN
        ReturnTo(f, s, t, ov) /\ UNCHANGED <<rstack, calls>>
    ELSE IF ctx # None THEN
        ReturnTo(f, s, t, ctx) /\ UNCHANGED <<rstack, calls>>
    ELSE IF InGuard(f, t) THEN
        RaiseTo(f, s, Err("CircularDependencyError", t, rstack[f]))
        /\ UNCHANGED <<rstack, calls>>
    ELSE IF p.kind = "none" THEN
        RaiseTo(f, s, Err("ResolutionError", t, <<>>)) /\ UNCHANGED <<rstack, calls>>
    ELSE IF EffScope(t) = "SINGLETON" THEN
        /\ stack' = [stack EXCEPT ![f] = Append(s, fr("wait", None))]
        /\ rstack' = [rstack EXCEPT ![f] = Append(@, t)]
        /\ running' = IF IsTask(f)
                      THEN (IF m = "aget" /\ ~AsyncLockFree(t) THEN NoOne ELSE f)
                      ELSE running
        /\ outs' = Started(f, s, t)
        /\ UNCHANGED <<exc, calls>>
    ELSE IF m = "get" /\ p.kind = "async" THEN
        RaiseTo(f, s, Err("ResolutionError(async provider)", t, <<>>)) /\ UNCHANGED <<rstack, calls>>
    ELSE
        /\ calls' = [calls EXCEPT ![t] = @ + 1]
        /\ stack' = [stack EXCEPT ![f] = Append(s, fr("inprov", Inst(t, calls[t] + 1)))]
        /\ rstack' = [rstack EXCEPT ![f] = Append(@, t)]
        /\ running' = AfterInvoke(f, m, p)
        /\ outs' = Started(f, s, t)
        /\ UNCHANGED exc

\* the mode of the top-level call a flow issues
ModeOf(f) == IF IsTask(f) THEN "aget" ELSE "get"

\* a flow calls get(t) (a thread) or aget(t) (a task); it issues at most
\* limit calls in a run
Call(f, t, limit) ==
    /\ stack[f] = <<>> /\ exc[f] = NoExc
    /\ Len(outs[f]) < limit
    /\ CanRun(f)
    /\ Enter(f, t, ModeOf(f), <<>>)
    /\ UNCHANGED <<cfgvars, hist, teardown, lockvars, ctxvars, singletons, resources, ncancel>>

\* SINGLETON branch: take the token's lock, look at the cache again and
\* invoke the provider when it is still empty
Acquire(f) ==
    /\ stack[f] # <<>> /\ exc[f] = NoExc
    /\ Top(f).pc = "wait"
    /\ CanRun(f)
    /\ LockFree(Top(f).mode, Top(f).tok)
    /\ LET fr == Top(f)
           t  == fr.tok
           cached == singletons[t]
       IN
       IF cached # None THEN
           /\ ReturnTo(f, Below(f), t, cached)
           /\ rstack' = [rstack EXCEPT ![f] = GuardReset(f, fr, TRUE)]
           /\ UNCHANGED <<lockvars, calls>>
       ELSE IF fr.mode = "get" /\ fr.prov.kind = "async" THEN
           /\ RaiseTo(f, Below(f), Err("ResolutionError(async provider)", t, <<>>))
           /\ rstack' = [rstack EXCEPT ![f] = GuardReset(f, fr, FALSE)]
           /\ UNCHANGED <<lockvars, calls>>
       ELSE
           /\ sync_lock' = IF fr.mode = "get" THEN [sync_lock EXCEPT ![t] = f] ELSE sync_lock
           /\ async_lock' = IF fr.mode = "aget" THEN [async_lock EXCEPT ![t] = f] ELSE async_lock
           /\ calls' = [calls EXCEPT ![t] = @ + 1]
           /\ stack' = [stack EXCEPT ![f][Len(stack[f])] =
                           [fr EXCEPT !.pc = "inprov", !.lock = fr.mode,
                                      !.inst = Inst(t, calls[t] + 1)]]
           /\ running' = AfterInvoke(f, fr.mode, fr.prov)
           /\ UNCHANGED <<exc, outs, rstack>>
    /\ UNCHANGED <<stats, cfgvars, hist, teardown, ctxvars, singletons, resources, ncancel>>

\* the running provider resolves its dependency: a sync provider by get,
\* an async provider by await aget
ProvCallDep(f) ==
    /\ stack[f] # <<>> /\ exc[f] = NoExc
    /\ Top(f).pc = "inprov"
    /\ Top(f).prov.dep # NoDep /\ ~Top(f).depdone
    /\ CanRun(f)
    /\ Enter(f, Top(f).prov.dep,
             IF Top(f).prov.kind = "async" THEN "aget" ELSE "get", stack[f])
    /\ UNCHANGED <<cfgvars, hist, teardown, lockvars, ctxvars, singletons, resources, ncancel>>

\* a with block that keeps the lock when it is left
SyncReleased_Held(fr) == sync_lock

\* locks after the with / async with block of frame fr is left
SyncReleased(fr) ==
    IF fr.lock = "get" THEN [sync_lock EXCEPT ![fr.tok] = NoOne] ELSE sync_lock
AsyncReleased(fr) ==
    IF fr.lock = "aget" THEN [async_lock EXCEPT ![fr.tok] = NoOne] ELSE async_lock

\* the record of a tracked instance: what it exposes for cleanup (cap) and
\* what its cleanup callable raises (fail)
Tracked(v, p) == [inst |-> v, cap |-> p.cap, fail |-> p.fail]

\* a resolution that forgets to hand non-singleton instances to the context
CacheBuilt_NoStore(f, fr, v) ==
    IF fr.lock # "none"
    THEN /\ singletons' = [singletons EXCEPT ![fr.tok] = v]
         /\ UNCHANGED frames
    ELSE UNCHANGED <<singletons, frames>>

\* the provider invoked for frame fr raises: always ("raise"), or on its
\* first invocation only ("raise1")
Raises(fr) ==
    \/ fr.prov.out = "raise"
    \/ fr.prov.out = "raise1" /\ fr.inst = Inst(fr.tok, 1)

\* Token.validate(instance): the value provider p returns is of the token's type
Validates(p) == p.out # "badtype"

TrackedAfter_TrackFirst(v, p) ==
    IF p.cap # "none" THEN Append(resources, Tracked(v, p)) ELSE resources

\* Container._validate_and_track: the tracked resources after the instance v
\* that provider p returned went through it
TrackedAfter(v, p) ==
    IF Validates(p) /\ p.cap # "none" THEN Append(resources, Tracked(v, p)) ELSE resources

\* where get/aget puts the instance v it built for frame fr: the singleton
\* cache in the SINGLETON branch, the context store in the other
CacheBuilt(f, fr, v) ==
    IF fr.lock # "none"
    THEN /\ singletons' = [singletons EXCEPT ![fr.tok] = v]
         /\ UNCHANGED frames
    ELSE StoreInContext(f, fr.tok, v)

\* the provider returns or raises; what it built is validated, tracked and
\* cached, the lock and the resolution guard are left
ProvFinish(f) ==
    /\ stack[f] # <<>> /\ exc[f] = NoExc
    /\ Top(f).pc = "inprov"
    /\ Top(f).prov.dep = NoDep \/ Top(f).depdone
    /\ CanRun(f)
    /\ LET fr == Top(f)
           t  == fr.tok
           v  == fr.inst
       IN
       /\ sync_lock' = SyncReleased(fr)
       /\ async_lock' = AsyncReleased(fr)
       /\ CASE Raises(fr) ->
                 /\ RaiseTo(f, Below(f), Err("ProviderError", t, <<>>))
                 /\ rstack' = [rstack EXCEPT ![f] = GuardReset(f, fr, FALSE)]
                 /\ UNCHANGED <<singletons, resources, frames>>
            [] ~Validates(fr.prov) ->
                 /\ RaiseTo(f, Below(f), Err("TypeError", t, <<>>))
                 /\ rstack' = [rstack EXCEPT ![f] = GuardReset(f, fr, FALSE)]
                 /\ resources' = TrackedAfter(v, fr.prov)
                 /\ UNCHANGED <<singletons, frames>>
            [] OTHER ->
                 /\ resources' = TrackedAfter(v, fr.prov)
                 /\ CacheBuilt(f, fr, v)
                 /\ rstack' = [rstack EXCEPT ![f] = GuardReset(f, fr, TRUE)]
                 /\ ReturnTo(f, Below(f), t, v)
    /\ UNCHANGED <<stats, cfgvars, hist, teardown, ovr, ovsaved, nblocks, calls, ncancel>>

\* an exception leaves one more get/aget of the flow (its lock and its guard
\* are released), or reaches the caller of the top-level call
Unwind(f) ==
    /\ exc[f] # NoExc
    /\ CanRun(f)
    /\ IF stack[f] = <<>>
       THEN /\ outs' = Logged(f, Outcome(f, Last(outs[f]).call, exc[f].tok, None,
                                         exc[f].kind, exc[f].chain))
            /\ exc' = [exc EXCEPT ![f] = NoExc]
            /\ running' = IF IsTask(f) THEN NoOne ELSE running
            /\ UNCHANGED <<stack, rstack, lockvars>>
       ELSE /\ stack' = [stack EXCEPT ![f] = Below(f)]
            /\ rstack' = [rstack EXCEPT ![f] = GuardReset(f, Top(f), FALSE)]
            /\ sync_lock' = SyncReleased(Top(f))
            /\ async_lock' = AsyncReleased(Top(f))
            /\ running' = IF IsTask(f) THEN f ELSE running
            /\ UNCHANGED <<outs, exc>>
    /\ UNCHANGED <<stats, cfgvars, hist, teardown, ctxvars, singletons, resources, calls,
                   ncancel>>

\* a task is suspended in aget: on the token's asyncio.Lock or on its async provider
Suspended(f) ==
    /\ IsTask(f) /\ running # f
    /\ stack[f] # <<>> /\ exc[f] = NoExc
    /\ Top(f).mode = "aget"
    /\ \/ Top(f).pc = "wait"
       \/ Top(f).pc = "inprov" /\ Top(f).prov.kind = "async"

\* task.cancel(): CancelledError is raised at the await the task is suspended on
Cancel(f) ==
    /\ Suspended(f)
    /\ running = NoOne
    /\ ncancel < MaxCancels
    /\ ncancel' = ncancel + 1
    /\ exc' = [exc EXCEPT ![f] = Err("CancelledError", Top(f).tok, <<>>)]
    /\ running' = f
    /\ UNCHANGED <<stats, cfgvars, hist, teardown, lockvars, ctxvars, singletons, resources,
                   calls, stack, rstack, outs>>

----------------------------------------------------------------------------
(* Request scopes *)

\* ContextualContainer.request_scope, entry: a fresh frame for the flow
EnterRequest(f, limit) ==
    /\ stack[f] = <<>> /\ exc[f] = NoExc
    /\ Len(frames[f]) < MaxNest
    /\ nblocks[f] < limit
    /\ nblocks' = [nblocks EXCEPT ![f] = @ + 1]
    /\ frames' = [frames EXCEPT ![f] = Append(@, [id |-> nblocks[f] + 1, cache |-> EmptyMap])]
    /\ UNCHANGED <<stats, cfgvars, hist, teardown, lockvars, ovr, ovsaved, singletons, resources,
                   calls, stack, rstack, exc, outs, running, ncancel>>

\* the indices n, n - 1, .. 1
Descending(n) == [k \in 1 .. n |-> n + 1 - k]

\* the invocation of the cleanup callable of tracked resource i, within the
\* teardown operation op of flow f
Cleanup(f, op, i) ==
    [op |-> "cleanup", flow |-> f, spec |-> op, val |-> i, err |-> resources[i].fail]

\* the resources with a sync close() that the innermost frame of flow f holds
FrameResources(f) ==
    LET held(i) == /\ resources[i].cap = "close"
                   /\ \E t \in Tokens : Last(frames[f]).cache[t] = resources[i].inst
    IN SelectSeq(Descending(Len(resources)), held)

\* the cleanups that leaving the innermost request frame of flow f invokes
FrameCleanups(f) ==
    [k \in 1 .. Len(FrameResources(f)) |-> Cleanup(f, "request_exit", FrameResources(f)[k])]

\* ContextualContainer.request_scope, exit: the innermost frame is dropped
\* and what it holds is cleaned up, last tracked first
ExitRequest(f) ==
    /\ stack[f] = <<>> /\ exc[f] = NoExc
    /\ frames[f] # <<>>
    /\ frames' = [frames EXCEPT ![f] = SubSeq(@, 1, Len(@) - 1)]
    /\ hist' = hist \o FrameCleanups(f)
    /\ UNCHANGED <<stats, cfgvars, teardown, lockvars, ovr, ovsaved, nblocks, singletons,
                   resources, calls, stack, rstack, exc, outs, running, ncancel>>

----------------------------------------------------------------------------
(* Concurrent resolution: threads and tasks resolving two SINGLETON tokens *)

ConcTokens == {"A", "B"}

\* nothing is registered under a string
NoStrings == [prov |-> {}, scope |-> {}]

\* the reference container after construction: nothing cached, nothing in
\* flight, every flow outside aget
Fresh ==
    [singletons |-> None, inflight |-> 0, tasks |-> <<>>,
     pc |-> [f \in Flows |-> [at |-> "idle", task |-> 0, late |-> FALSE]],
     outs |-> [f \in Flows |-> <<>>]]

\* no comparison of get and aget is under way
NoTwin == [phase |-> "idle", tok |-> NoDep, pre |-> <<>>, post |-> <<>>]

\* no aclose is in progress
Idle == [by |-> NoOne, tasks |-> <<>>, jobs |-> {}]

Prov(k, d, o) == [kind |-> k, dep |-> d, out |-> o, cap |-> "none", fail |-> "ok"]

InitRun ==
    /\ singletons = EmptyMap
    /\ resources = <<>>
    /\ sync_lock = [t \in Tokens |-> NoOne]
    /\ async_lock = [t \in Tokens |-> NoOne]
    /\ calls = [t \in Tokens |-> 0]
    /\ stack = [f \in Flows |-> <<>>]
    /\ rstack = [f \in Flows |-> <<>>]
    /\ ovr = [f \in Flows |-> Unset]
    /\ ovsaved = [f \in Flows |-> <<>>]
    /\ frames = [f \in 1 .. 2 * NFlows |-> <<>>]
    /\ nblocks = [f \in Flows |-> 0]
    /\ exc = [f \in Flows |-> NoExc]
    /\ outs = [f \in Flows |-> <<>>]
    /\ running = NoOne
    /\ ncancel = 0
    /\ hist = <<>>
    /\ teardown = Idle
    /\ strreg = NoStrings
    /\ twin = NoTwin
    /\ stats = [hits |-> 0, misses |-> 0]
    /\ di = Fresh

InitConc ==
    /\ \E n \in 0 .. NFlows : kind = [f \in Flows |-> IF f <= n THEN "thread" ELSE "task"]
    /\ tscope = [t \in Tokens |-> IF t = "A" THEN "TRANSIENT" ELSE "SINGLETON"]
    /\ token_scopes = [t \in Tokens |-> IF t = "A" THEN "SINGLETON" ELSE "unset"]
    /\ \E k \in {"sync", "async"}, da \in {NoDep, "B"}, db \in {NoDep, "A"} :
          providers = [t \in Tokens |->
                          CASE t = "A" -> Prov(k, da, "ok")
                            [] t = "B" -> Prov(k, db, "ok")
                            [] OTHER   -> NoProvider]
    /\ InitRun

NextConc ==
    \/ \E f \in Flows, t \in ConcTokens : Call(f, t, MaxOps)
    \/ \E f \in Flows : Acquire(f)
    \/ \E f \in Flows : ProvCallDep(f)
    \/ \E f \in Flows : ProvFinish(f)
    \/ \E f \in Flows : Unwind(f)
    \/ \E f \in Flows : Cancel(f)

SpecConc == InitConc /\ [][NextConc]_vars

----------------------------------------------------------------------------
(* Claims about concurrent resolution (SpecConc) *)

AllThreads == \A f \in Flows : kind[f] = "thread"
AllTasks   == \A f \in Flows : kind[f] = "task"

\* no provider reaches itself through its dependencies, so every provider
\* that is invoked builds an instance
AcyclicDeps == ~(providers["A"].dep = "B" /\ providers["B"].dep = "A")

\* the outcomes of all top-level calls so far
Outcomes == UNION {{outs[f][i] : i \in 1 .. Len(outs[f])} : f \in Flows}

\* the instances top-level calls for t have returned so far
Returned(t) == {o.val : o \in {r \in Outcomes : r.call = t /\ r.err = "none"}}

\* flow f has finished a call for t, which returned v
Got(f, t, v) ==
    /\ outs[f] # <<>>
    /\ Last(outs[f]).call = t /\ Last(outs[f]).err = "none" /\ Last(outs[f]).val = v

\* the provider of t ran at most once and every top-level call that
\* returned got the instance of that one run
SingleFlight(t) ==
    /\ calls[t] <= 1
    /\ Returned(t) \subseteq {Inst(t, 1)}
    /\ Returned(t) # {} => calls[t] = 1

\* C1: when only threads call get, for every token whose effective scope is
\* SINGLETON and whose provider is synchronous the provider is invoked
\* exactly once and every get returns that one instance.
C1_ThreadsSingleFlight ==
    (AllThreads /\ AcyclicDeps) =>
        \A t \in ConcTokens :
            (EffScope(t) = "SINGLETON" /\ providers[t].kind = "sync") => SingleFlight(t)

\* every thread called get(A) and holds the instance of the single run
C1_Witness ==
    /\ AllThreads
    /\ providers["A"].kind = "sync"
    /\ calls["A"] = 1
    /\ \A f \in Flows : Got(f, "A", Inst("A", 1))

\* C2: when only tasks call aget and none is cancelled, for every SINGLETON
\* token with an async provider that suspends the provider is invoked
\* exactly once and every task receives that one instance.
C2_TasksSingleFlight ==
    (AllTasks /\ AcyclicDeps /\ ncancel = 0) =>
        \A t \in ConcTokens :
            (EffScope(t) = "SINGLETON" /\ providers[t].kind = "async") => SingleFlight(t)

\* every task returned from aget(A) with the instance of the single run of
\* the async provider
C2_Witness ==
    /\ AllTasks /\ ncancel = 0
    /\ providers["A"].kind = "async"
    /\ calls["A"] = 1
    /\ \A f \in Flows : Got(f, "A", Inst("A", 1))

\* C3: when a thread runs get(t) while a task runs aget(t) on the same sync
\* provider, the provider runs once in total and both receive one instance.
C3_MixedSingleFlight ==
    (AcyclicDeps /\ ~AllThreads /\ ~AllTasks) =>
        \A t \in ConcTokens :
            (EffScope(t) = "SINGLETON" /\ providers[t].kind = "sync") => SingleFlight(t)

\* flow f waits for the lock of the token on top of its stack, which g holds
WaitsFor(f, g) ==
    /\ stack[f] # <<>> /\ Top(f).pc = "wait"
    /\ IF Top(f).mode = "get" THEN sync_lock[Top(f).tok] = g
                              ELSE async_lock[Top(f).tok] = g

\* C4: no reachable state has two callers each holding one token's
\* singleton lock while waiting for the other's.
C4_NoLockCycle ==
    ~ \E f, g \in Flows : f # g /\ WaitsFor(f, g) /\ WaitsFor(g, f)

\* C5: when the task awaiting the async provider of a SINGLETON is cancelled,
\* the provider is not invoked a second time and the remaining waiters
\* receive the instance of the first invocation.
C5_CancelKeepsConstruction ==
    (AllTasks /\ AcyclicDeps /\ ncancel > 0) =>
        \A t \in ConcTokens :
            (EffScope(t) = "SINGLETON" /\ providers[t].kind = "async") => SingleFlight(t)

----------------------------------------------------------------------------
(* Sequential resolution on one flow: dependency chains and cycles, failing
   providers, unregistered tokens *)

\* the flow that acts in the sequential scenarios
SeqFlow == 1

\* who resolves whom: no dependencies, a chain, a 3-cycle, a self-dependency,
\* a 2-cycle beside a free token, and a chain that runs into a 2-cycle
DepChoices ==
    { [A |-> NoDep, B |-> NoDep, C |-> NoDep],
      [A |-> "B",   B |-> "C",   C |-> NoDep],
      [A |-> "B",   B |-> "C",   C |-> "A"],
      [A |-> "A",   B |-> NoDep, C |-> NoDep],
      [A |-> "B",   B |-> "A",   C |-> NoDep],
      [A |-> "B",   B |-> "C",   C |-> "B"] }

ScopeChoices ==
    { [A |-> "SINGLETON", B |-> "SINGLETON", C |-> "SINGLETON"],
      [A |-> "REQUEST",   B |-> "REQUEST",   C |-> "REQUEST"],
      [A |-> "TRANSIENT", B |-> "TRANSIENT", C |-> "TRANSIENT"],
      [A |-> "SINGLETON", B |-> "REQUEST",   C |-> "TRANSIENT"] }

\* flow SeqFlow is a thread or a task; the other flows stay idle
InitSeqKind ==
    \E k \in {"thread", "task"} :
        kind = [f \in Flows |-> IF f = SeqFlow THEN k ELSE "thread"]

InitCycle ==
    /\ InitSeqKind
    /\ tscope \in ScopeChoices
    /\ token_scopes = [t \in Tokens |-> "unset"]
    /\ \E d \in DepChoices, k \in {"sync", "async"},
          o \in {"ok", "raise", "badtype"}, reg \in BOOLEAN :
          providers = [t \in Tokens |->
                          IF t = "C" /\ ~reg /\ d["C"] = NoDep THEN NoProvider
                          ELSE Prov(k, d[t], IF t = "B" THEN o ELSE "ok")]
    /\ InitRun

NextCycle ==
    \/ \E t \in Tokens : Call(SeqFlow, t, MaxSeqOps)
    \/ Acquire(SeqFlow)
    \/ ProvCallDep(SeqFlow)
    \/ ProvFinish(SeqFlow)
    \/ Unwind(SeqFlow)

SpecCycle == InitCycle /\ [][NextCycle]_vars

----------------------------------------------------------------------------
(* Claims about cycles and the resolution guard (SpecCycle) *)

\* the tokens met when following the dependencies from t, up to a dead end
\* or a token met before
RECURSIVE Walk(_, _)
Walk(t, s) ==
    IF t = NoDep \/ InSeq(t, s) THEN s
    ELSE Walk(providers[t].dep, Append(s, t))

\* where that walk stops: NoDep at a dead end, else the token met twice
RECURSIVE WalkEnd(_, _)
WalkEnd(t, s) ==
    IF t = NoDep \/ InSeq(t, s) THEN t
    ELSE WalkEnd(providers[t].dep, Append(s, t))

\* flow f can invoke every registered provider: a thread cannot run async ones
Invocable(f) == IsTask(f) \/ \A t \in Tokens : providers[t].kind # "async"

\* the tokens of the calls in progress on flow f, outermost first
StackTokens(f) == [i \in 1 .. Len(stack[f]) |-> stack[f][i].tok]

\* the finished top-level calls of flow f
Finished(f) == {i \in 1 .. Len(outs[f]) : outs[f][i].err # "pending"}

\* C6: a get of a token whose dependencies run into a cycle terminates by
\* raising CircularDependencyError for the re-entered token, with the
\* ordered list of the tokens under resolution as its chain; the flow never
\* re-enters a token it is resolving, never waits for a singleton lock it
\* holds, and always has a next step while the call is in progress.
C6_CycleRaises ==
    \A f \in Flows :
        /\ \A i \in Finished(f) :
              LET o == outs[f][i] IN
              (Invocable(f) /\ WalkEnd(o.call, <<>>) # NoDep) =>
                  /\ o.err = "CircularDependencyError"
                  /\ o.tok = WalkEnd(o.call, <<>>)
                  /\ o.chain = Walk(o.call, <<>>)
        /\ \A i, j \in 1 .. Len(stack[f]) : stack[f][i].tok = stack[f][j].tok => i = j
        /\ \A i \in 1 .. Len(stack[f]) :
              stack[f][i].pc = "wait" =>
                  sync_lock[stack[f][i].tok] # f /\ async_lock[stack[f][i].tok] # f
        /\ (f = SeqFlow /\ (stack[f] # <<>> \/ exc[f] # NoExc)) => ENABLED NextCycle

\* get(A) on the cycle A -> B -> C -> A ended with chain [A, B, C]
C6_Witness ==
    /\ outs[SeqFlow] # <<>>
    /\ Last(outs[SeqFlow]).call = "A"
    /\ Last(outs[SeqFlow]).err = "CircularDependencyError"
    /\ Last(outs[SeqFlow]).tok = "A"
    /\ Last(outs[SeqFlow]).chain = <<"A", "B", "C">>
    /\ stack[SeqFlow] = <<>> /\ exc[SeqFlow] = NoExc

\* the walk from t meets only registered providers that return a valid
\* instance, and ends at a token without dependency
Healthy(f, t) ==
    /\ WalkEnd(t, <<>>) = NoDep
    /\ \A i \in 1 .. Len(Walk(t, <<>>)) :
          LET p == providers[Walk(t, <<>>)[i]] IN
          /\ p.kind # "none" /\ p.out = "ok"
          /\ p.kind = "async" => IsTask(f)

\* C7: the resolution guard of a flow holds exactly the tokens of its calls
\* in progress, so that every get/aget that returns or raises leaves it as
\* it found it; after a top-level call it is empty, and a later call for a
\* token whose providers are sound succeeds.
C7_GuardRestored ==
    \A f \in Flows :
        /\ rstack[f] = StackTokens(f)
        /\ stack[f] = <<>> => rstack[f] = <<>>
        /\ \A i \in Finished(f) : Healthy(f, outs[f][i].call) => outs[f][i].err = "none"

\* a call that raised is followed by a call for another token that returned
C7_Witness ==
    /\ Len(outs[SeqFlow]) >= 2
    /\ outs[SeqFlow][1].err \in {"CircularDependencyError", "ProviderError", "TypeError"}
    /\ outs[SeqFlow][2].err = "none"
    /\ outs[SeqFlow][2].call # outs[SeqFlow][1].call
    /\ rstack[SeqFlow] = <<>>

\* token t is declared with scope s and registered without a scope of its own
Scoped(t, s) == tscope[t] = s /\ token_scopes[t] = "unset"

\* the finished calls of flow f that asked for token t
CallsOf(f, t) == {i \in Finished(f) : outs[f][i].call = t}

\* no provider resolves token t as its dependency
NotADep(t) == \A u \in Tokens : providers[u].dep # t

----------------------------------------------------------------------------
(* Request scopes: one flow entering and leaving request-scope blocks *)

InitRequest ==
    /\ InitSeqKind
    /\ tscope \in ScopeChoices
    /\ token_scopes = [t \in Tokens |-> "unset"]
    /\ \E d \in {NoDep, "B"} :
          providers = [t \in Tokens |->
                          IF t = "C" THEN NoProvider
                          ELSE Prov("sync", IF t = "A" THEN d ELSE NoDep, "ok")]
    /\ InitRun

NextRequest ==
    \/ \E t \in {"A", "B"} : Call(SeqFlow, t, MaxSeqOps)
    \/ Acquire(SeqFlow)
    \/ ProvCallDep(SeqFlow)
    \/ ProvFinish(SeqFlow)
    \/ EnterRequest(SeqFlow, MaxBlocks)
    \/ ExitRequest(SeqFlow)

SpecRequest == InitRequest /\ [][NextRequest]_vars

\* the calls of CallsOf(f, t) made inside a request-scope block
InBlock(f, t) == {i \in CallsOf(f, t) : outs[f][i].blk # <<>>}

\* the calls for token t that flow f started outside every block
OutOfBlock(f, t) ==
    {i \in 1 .. Len(outs[f]) : outs[f][i].call = t /\ outs[f][i].blk = <<>>}

\* the request frames open around call i of flow f
BlocksOf(f, i) == {outs[f][i].blk[k] : k \in 1 .. Len(outs[f][i].blk)}

\* C9: for a token of REQUEST scope, the gets made in one request-scope
\* block return the same instance, gets made in disjoint blocks return
\* distinct instances, and the provider runs at most once per block.
C9_RequestPerBlock ==
    \A f \in Flows, t \in Tokens :
        Scoped(t, "REQUEST") =>
            /\ \A i, j \in InBlock(f, t) :
                  /\ Last(outs[f][i].blk) = Last(outs[f][j].blk) =>
                        outs[f][i].val = outs[f][j].val
                  /\ BlocksOf(f, i) \cap BlocksOf(f, j) = {} =>
                        outs[f][i].val # outs[f][j].val
            /\ \A i \in InBlock(f, t) : outs[f][i].val # None
            /\ (NotADep(t) /\ f = SeqFlow) =>
                  calls[t] <= nblocks[f] + Cardinality(OutOfBlock(f, t))

\* two gets in one block returned one instance, and a get in a later block
\* returned another
C9_Witness ==
    /\ Scoped("A", "REQUEST")
    /\ Len(outs[SeqFlow]) = 3
    /\ \A i \in 1 .. 3 : outs[SeqFlow][i].call = "A" /\ outs[SeqFlow][i].err = "none"
    /\ outs[SeqFlow][1].blk = <<1>> /\ outs[SeqFlow][2].blk = <<1>>
    /\ outs[SeqFlow][3].blk = <<2>>
    /\ outs[SeqFlow][1].val = outs[SeqFlow][2].val
    /\ outs[SeqFlow][3].val # outs[SeqFlow][1].val
    /\ calls["A"] = 2

----------------------------------------------------------------------------
(* Overrides: one flow entering and leaving use_overrides blocks *)

\* an entry that installs the mapping alone, without the overrides around it
Merged_NoParent(f, t, x) ==
    [set |-> TRUE, keys |-> {t}, map |-> [Unset.map EXCEPT ![t] = x]]

\* Container.use_overrides: the mapping {t: x} merged into a copy of the
\* flow's current overrides
Merged(f, t, x) ==
    [set  |-> TRUE,
     keys |-> ovr[f].keys \cup {t},
     map  |-> [ovr[f].map EXCEPT ![t] = x]]

\* an exit that clears the flow's overrides instead of resetting them
Restored_Cleared(f) == Unset

\* Container.use_overrides: reset(token) puts back what the ContextVar held
\* when the innermost open block was entered
Restored(f) == Last(ovsaved[f]).prev

\* Container.use_overrides, entry: the merged overrides become the flow's
\* overrides; the block remembers what it replaced and what it was given
EnterOverrides(f, t, x, limit) ==
    /\ stack[f] = <<>> /\ exc[f] = NoExc
    /\ Len(ovsaved[f]) < limit
    /\ ovsaved' = [ovsaved EXCEPT ![f] = Append(@, [prev |-> ovr[f], tok |-> t, val |-> x])]
    /\ ovr' = [ovr EXCEPT ![f] = Merged(f, t, x)]
    /\ UNCHANGED <<stats, cfgvars, hist, teardown, lockvars, frames, nblocks, singletons, resources, calls,
                   stack, rstack, exc, outs, running, ncancel>>

\* Container.use_overrides, exit (normal, or by an exception that left a
\* call of the block): the finally clause resets the ContextVar
ExitOverrides(f) ==
    /\ stack[f] = <<>> /\ exc[f] = NoExc
    /\ ovsaved[f] # <<>>
    /\ ovr' = [ovr EXCEPT ![f] = Restored(f)]
    /\ ovsaved' = [ovsaved EXCEPT ![f] = SubSeq(@, 1, Len(@) - 1)]
    /\ UNCHANGED <<stats, cfgvars, hist, teardown, lockvars, frames, nblocks, singletons, resources, calls,
                   stack, rstack, exc, outs, running, ncancel>>

\* the object that flow f binds token t to in its block at depth d
OvObj(f, t, d) == OvInst(t, 10 * f + d)

\* what a use_overrides block may bind token t to: an object made for the
\* block, or None
OvValues(f, t) == {None, OvObj(f, t, Len(ovsaved[f]) + 1)}

\* A is a singleton whose provider resolves B, B is request-scoped, C has no
\* provider
InitOverride ==
    /\ InitSeqKind
    /\ tscope = [A |-> "SINGLETON", B |-> "REQUEST", C |-> "TRANSIENT"]
    /\ token_scopes = [t \in Tokens |-> "unset"]
    /\ providers = [A |-> Prov("sync", "B", "ok"), B |-> Prov("sync", NoDep, "ok"),
                    C |-> NoProvider]
    /\ InitRun

NextOverride ==
    \/ \E t \in {"A", "C"} : Call(SeqFlow, t, MaxOvOps)
    \/ Acquire(SeqFlow)
    \/ ProvCallDep(SeqFlow)
    \/ ProvFinish(SeqFlow)
    \/ Unwind(SeqFlow)
    \/ \E t \in Tokens : \E x \in OvValues(SeqFlow, t) : EnterOverrides(SeqFlow, t, x, MaxNest)
    \/ ExitOverrides(SeqFlow)
    \/ EnterRequest(SeqFlow, MaxBlocks - 1)
    \/ ExitRequest(SeqFlow)

SpecOverride == InitOverride /\ [][NextOverride]_vars

\* flow f issues a top-level get/aget for token t in this step
Calls(f, t) ==
    /\ stack[f] = <<>> /\ exc[f] = NoExc
    /\ Len(outs'[f]) = Len(outs[f]) + 1
    /\ Last(outs'[f]).call = t

\* the call that flow f issues in this step returns x at once: no provider
\* is invoked, the guard is not entered, no cache, lock or resource changes
ReturnsAtOnce(f, x) ==
    /\ Last(outs'[f]).err = "none"
    /\ Last(outs'[f]).val = x
    /\ stack'[f] = <<>> /\ exc'[f] = NoExc
    /\ UNCHANGED <<calls, rstack, singletons, frames, resources, sync_lock, async_lock>>

\* C10 as stated: while a use_overrides block binding t to X is active on
\* the flow, get(t) and aget(t) return X at once, whatever X is.
C10_OverrideWins ==
    [][\A f \in Flows, t \in Tokens :
          (Calls(f, t) /\ ovr[f].set /\ t \in ovr[f].keys) =>
              ReturnsAtOnce(f, ovr[f].map[t])]_vars

\* C10 as amended: while a use_overrides block binding t to an X other than
\* None is active on the flow, get(t) and aget(t) return X without invoking
\* the provider, without entering the resolution guard and without reading
\* or writing any cache, whatever the caches and the provider table hold.
C10_OverrideWinsNotNone ==
    [][\A f \in Flows, t \in Tokens :
          (Calls(f, t) /\ ovr[f].set /\ t \in ovr[f].keys /\ ovr[f].map[t] # None) =>
              ReturnsAtOnce(f, ovr[f].map[t])]_vars

\* a token was resolved and cached as a singleton, and a later call made
\* under an override of it returned the override's instance
C10_Witness ==
    /\ Len(outs[SeqFlow]) = 2
    /\ outs[SeqFlow][1].call = "A" /\ outs[SeqFlow][1].val = Inst("A", 1)
    /\ singletons["A"] = Inst("A", 1)
    /\ outs[SeqFlow][2].call = "A" /\ outs[SeqFlow][2].val = OvObj(SeqFlow, "A", 1)
    /\ ovr[SeqFlow].set /\ ovr[SeqFlow].map["A"] = OvObj(SeqFlow, "A", 1)
    /\ calls["A"] = 1

----------------------------------------------------------------------------
(* Nested use_overrides blocks on one flow *)

\* A is transient with a provider, C has no provider: a get(C) outside an
\* override of C raises, and leaves the blocks around it by exception
InitNest ==
    /\ InitSeqKind
    /\ tscope = [A |-> "TRANSIENT", B |-> "SINGLETON", C |-> "TRANSIENT"]
    /\ token_scopes = [t \in Tokens |-> "unset"]
    /\ providers = [A |-> Prov("sync", NoDep, "ok"), B |-> Prov("sync", NoDep, "ok"),
                    C |-> NoProvider]
    /\ InitRun

NextNest ==
    \/ \E t \in {"A", "C"} : Call(SeqFlow, t, MaxSeqOps)
    \/ ProvFinish(SeqFlow)
    \/ Unwind(SeqFlow)
    \/ \E t \in {"A", "C"} : \E x \in OvValues(SeqFlow, t) :
          EnterOverrides(SeqFlow, t, x, MaxOvNest)
    \/ ExitOverrides(SeqFlow)

SpecNest == InitNest /\ [][NextNest]_vars

\* the overrides that the open blocks bs, outermost first, amount to: each
\* block's binding laid over those of the blocks around it
RECURSIVE Expected(_)
Expected(bs) ==
    IF bs = <<>> THEN Unset
    ELSE LET out == Expected(SubSeq(bs, 1, Len(bs) - 1))
             b   == bs[Len(bs)]
         IN [set  |-> TRUE,
             keys |-> out.keys \cup {b.tok},
             map  |-> [out.map EXCEPT ![b.tok] = b.val]]

\* C11: at every nesting depth, and after every exit of a use_overrides
\* block (normal or by exception), the overrides of the flow are the
\* bindings of the blocks still open, inner over outer: an exit puts back
\* what was in force before the entry, and outside all blocks there are no
\* overrides, so that get resolves through the provider again.
C11_OverridesRestored ==
    \A f \in Flows :
        /\ ovr[f] = Expected(ovsaved[f])
        /\ ovsaved[f] = <<>> => \A t \in Tokens : GetOverride(f, t) = None
        /\ \A i \in Finished(f) :
              (outs[f][i].err = "none" /\ outs[f][i].val >= Base(outs[f][i].call) + OvBase)
                  => \E d \in 1 .. MaxOvNest :
                        outs[f][i].val = OvObj(f, outs[f][i].call, d)

\* an inner block shadowed the outer binding of A, a get(C) raised in a
\* block, and after the inner exit get(A) returned the outer binding again
C11_Witness ==
    /\ Len(outs[SeqFlow]) = 3
    /\ outs[SeqFlow][1].call = "A" /\ outs[SeqFlow][1].val = OvObj(SeqFlow, "A", 2)
    /\ outs[SeqFlow][2].call = "C" /\ outs[SeqFlow][2].err = "ResolutionError"
    /\ outs[SeqFlow][3].call = "A" /\ outs[SeqFlow][3].val = OvObj(SeqFlow, "A", 1)
    /\ Len(ovsaved[SeqFlow]) = 1
    /\ ovr[SeqFlow].map["A"] = OvObj(SeqFlow, "A", 1)

----------------------------------------------------------------------------
(* Concurrent flows, each with its own use_overrides blocks *)

\* the flows are threads and tasks; A is a singleton whose provider is sync
\* or async
InitIsolation ==
    /\ \E n \in 0 .. NFlows : kind = [f \in Flows |-> IF f <= n THEN "thread" ELSE "task"]
    /\ tscope = [t \in Tokens |-> "SINGLETON"]
    /\ token_scopes = [t \in Tokens |-> "unset"]
    /\ \E k \in {"sync", "async"} :
          providers = [t \in Tokens |-> IF t = "A" THEN Prov(k, NoDep, "ok") ELSE NoProvider]
    /\ InitRun

\* the flows that resolve; every flow opens and leaves blocks
Callers == {1, 2}

NextIsolation ==
    \/ \E f \in Callers : Call(f, "A", MaxOps)
    \/ \E f \in Callers : Acquire(f)
    \/ \E f \in Callers : ProvFinish(f)
    \/ \E f \in Callers : Unwind(f)
    \/ \E f \in Flows : \E x \in OvValues(f, "A") : EnterOverrides(f, "A", x, MaxNest)
    \/ \E f \in Flows : ExitOverrides(f)

SpecIsolation == InitIsolation /\ [][NextIsolation]_vars

\* what the blocks that flow f has open bind token t to (None: nothing)
Bound(f, t) == Expected(ovsaved[f]).map[t]

\* the objects that the blocks of flows other than f bind t to
ForeignObjs(f, t) == {OvObj(g, t, d) : g \in Flows \ {f}, d \in 1 .. MaxNest + 1}

\* C12: a get/aget(t) that a flow issues inside its own use_overrides block
\* binding t to X returns X, whatever blocks the other flows have entered or
\* left in the meantime, and no flow is ever handed an object bound by a
\* block of another flow.
C12_OverridesIsolated ==
    [][\A f \in Flows :
          /\ (Calls(f, "A") /\ Bound(f, "A") # None) =>
                /\ Last(outs'[f]).err = "none"
                /\ Last(outs'[f]).val = Bound(f, "A")
          /\ \A i \in 1 .. Len(outs'[f]) : outs'[f][i].val \notin ForeignObjs(f, "A")]_vars

\* two flows are inside their blocks at the same time and each has been
\* handed its own object
C12_Witness ==
    /\ \A f \in {1, 2} :
          /\ Len(ovsaved[f]) = 1
          /\ Bound(f, "A") = OvObj(f, "A", 1)
          /\ Len(outs[f]) = MaxOps
          /\ \A i \in 1 .. Len(outs[f]) : outs[f][i].val = OvObj(f, "A", 1)

----------------------------------------------------------------------------
(* Registration, values, type specifiers and clear() *)

\* a type handle; tokens A and B are Token("D", D, ...) of different scope
Types == {"D"}

\* Token.type_
TypeOf(t) == IF t \in {"A", "B"} THEN "D" ELSE "E"

\* TokenFactory.singleton(type.__name__, type): the SINGLETON token of a type
FactorySingleton(ty) == CHOOSE t \in Tokens : TypeOf(t) = ty /\ tscope[t] = "SINGLETON"

\* Token(type.__name__, type): the token of a type with the default scope
Fabricated(ty) == CHOOSE t \in Tokens : TypeOf(t) = ty /\ tscope[t] = "TRANSIENT"

\* Container._coerce_to_token: a token is taken as it is; a type stands for
\* a token of that type that has a provider, else for a fabricated token
CoerceToToken(s) ==
    IF s \in Tokens THEN s
    ELSE IF \E t \in Tokens : providers[t].kind # "none" /\ TypeOf(t) = s
         THEN CHOOSE t \in Tokens : providers[t].kind # "none" /\ TypeOf(t) = s
         ELSE Fabricated(s)

\* identities at and above Base(t) + ValBase are values given to register_value
ValBase == 90
\* the value registered for specifier s
ValObj(s) == Base(IF s \in Tokens THEN s ELSE FactorySingleton(s)) + ValBase

\* a container-level operation op of flow f on specifier s
Event(op, f, s, v) == [op |-> op, flow |-> f, spec |-> s, val |-> v, err |-> "none"]

\* the operations logged so far, cleanup invocations apart
Ops == Len(SelectSeq(hist, LAMBDA e : e.op # "cleanup"))

\* Container.clear(): the provider table afterwards
ClearedProviders_Kept == providers
ClearedProviders == [t \in Tokens |-> NoProvider]

\* ContextualContainer.clear_all_contexts: the caches of the scope frames
\* that the calling flow has open are emptied
ClearedFrames(f) ==
    [g \in DOMAIN frames |->
        IF g \in {CtxOf(f), SessionOf(f)}
        THEN [i \in 1 .. Len(frames[g]) |-> [frames[g][i] EXCEPT !.cache = EmptyMap]]
        ELSE frames[g]]

\* Container.clear(): providers and caches are emptied; overrides, scope
\* registrations and tracked resources stay
Cleared(f) ==
    /\ providers' = ClearedProviders
    /\ strreg' = [strreg EXCEPT !.prov = {}]
    /\ singletons' = EmptyMap
    /\ frames' = ClearedFrames(f)
    /\ stats' = [hits |-> 0, misses |-> 0]

\* strings handed over where a token or a type is expected
Strings == {"s"}

\* TokenFactory.create(type.__name__, type, scope=scope or TRANSIENT)
Created(ty, sc) ==
    CHOOSE t \in Tokens :
        TypeOf(t) = ty /\ tscope[t] = IF sc = "unset" THEN "TRANSIENT" ELSE sc

\* something that is not callable, handed over as a provider
NotCallable == [NoProvider EXCEPT !.kind = "value"]

\* callable(provider)
Callable(p) == p.kind # "value"

\* Container.register, the error it raises: none for a callable provider;
\* the message of the TypeError reads token.type_, which a string lacks
RegisterError(s, p) ==
    IF Callable(p) THEN "none"
    ELSE IF s \in Strings THEN "AttributeError" ELSE "TypeError"

\* a register that checks the provider before it records the scope
ScopeRecorded_Checked(s, p, sc) == s \notin Types /\ sc # "unset" /\ Callable(p)

\* Container.register records the scope beside the key: for a key that is
\* not a type, when a scope is given
ScopeRecorded(s, p, sc) == s \notin Types /\ sc # "unset"

\* Container.register(token | type, provider, scope): the key s is a token, a
\* type or a string, sc = "unset" stands for no scope; the logged event
\* tells whether the provider was callable (val 1) and what was raised
Register(f, s, p, sc) ==
    /\ stack[f] = <<>> /\ exc[f] = NoExc
    /\ Ops < MaxEvents
    /\ LET key == IF s \in Types THEN Created(s, sc) ELSE s
       IN /\ token_scopes' = IF ScopeRecorded(s, p, sc) /\ s \in Tokens
                             THEN [token_scopes EXCEPT ![s] = sc] ELSE token_scopes
          /\ strreg' = [prov  |-> IF Callable(p) /\ s \in Strings
                                  THEN strreg.prov \cup {s} ELSE strreg.prov,
                        scope |-> IF ScopeRecorded(s, p, sc) /\ s \in Strings
                                  THEN strreg.scope \cup {s} ELSE strreg.scope]
          /\ providers' = IF Callable(p) /\ key \in Tokens
                          THEN [providers EXCEPT ![key] = p] ELSE providers
    /\ hist' = Append(hist, [Event("register", f, s, IF Callable(p) THEN 1 ELSE 0)
                                EXCEPT !.err = RegisterError(s, p)])
    /\ UNCHANGED <<stats, twin, di, kind, tscope, teardown, lockvars, ctxvars, singletons, resources, calls, stack,
                   rstack, exc, outs, running, ncancel>>

\* Container.register_value(token | type, value)
RegisterValue(f, s) ==
    /\ stack[f] = <<>> /\ exc[f] = NoExc
    /\ Ops < MaxEvents
    /\ LET t == IF s \in Types THEN FactorySingleton(s) ELSE s
       IN singletons' = [singletons EXCEPT ![t] = ValObj(s)]
    /\ hist' = Append(hist, Event("register_value", f, s, ValObj(s)))
    /\ UNCHANGED <<stats, cfgvars, teardown, lockvars, ctxvars, resources, calls, stack, rstack, exc, outs,
                   running, ncancel>>

\* Container.clear()
Clear(f) ==
    /\ stack[f] = <<>> /\ exc[f] = NoExc
    /\ Ops < MaxEvents
    /\ Cleared(f)
    /\ hist' = Append(hist, Event("clear", f, NoDep, None))
    /\ UNCHANGED <<twin, di, kind, tscope, token_scopes, teardown, lockvars, ovr, ovsaved, nblocks, resources,
                   calls, stack, rstack, exc, outs, running, ncancel>>

\* Container.get / Container.aget with a token or a type as specifier, or
\* with a string, which _coerce_to_token rejects; the logged event carries
\* the position of the call among the flow's calls
GetBySpec(f, s) ==
    /\ stack[f] = <<>> /\ exc[f] = NoExc
    /\ Ops < MaxEvents
    /\ CanRun(f)
    /\ IF s \in Strings
       THEN /\ outs' = Logged(f, Outcome(f, s, s, None, "TypeError", <<>>))
            /\ UNCHANGED <<stack, rstack, exc, calls, running, stats>>
       ELSE Enter(f, CoerceToToken(s), ModeOf(f), <<>>)
    /\ hist' = Append(hist, Event("get", f, s, Len(outs[f]) + 1))
    /\ UNCHANGED <<cfgvars, teardown, lockvars, ctxvars, singletons, resources, ncancel>>

\* a fresh container; A = Token("D", D, SINGLETON), B = Token("D", D) and
\* C = Token("E", E, SINGLETON)
InitValue ==
    /\ InitSeqKind
    /\ tscope = [A |-> "SINGLETON", B |-> "TRANSIENT", C |-> "SINGLETON"]
    /\ token_scopes = [t \in Tokens |-> "unset"]
    /\ providers = [t \in Tokens |-> NoProvider]
    /\ InitRun

NextValue ==
    \/ \E s \in {"A", "C"} \cup Types : Register(SeqFlow, s, Prov("sync", NoDep, "ok"), "unset")
    \/ \E s \in {"A", "C"} \cup Types : RegisterValue(SeqFlow, s)
    \/ Clear(SeqFlow)
    \/ \E s \in Tokens \cup Types : GetBySpec(SeqFlow, s)
    \/ Acquire(SeqFlow)
    \/ ProvFinish(SeqFlow)
    \/ Unwind(SeqFlow)

SpecValue == InitValue /\ [][NextValue]_vars

\* the outcome of the get logged as event i of the history
OutcomeOf(i) == outs[hist[i].flow][hist[i].val]

\* event i is a get whose call has returned or raised
GetDone(i) ==
    /\ hist[i].op = "get"
    /\ Len(outs[hist[i].flow]) >= hist[i].val
    /\ OutcomeOf(i).err # "pending"

\* C13: a get(t) that directly follows register_value(t, v), for a token or
\* a type t, returns v; a get(t) that directly follows clear() raises
\* ResolutionError.
C13_ValueRoundTrip ==
    \A i \in 2 .. Len(hist) :
        GetDone(i) =>
            /\ (hist[i - 1].op = "register_value" /\ hist[i - 1].spec = hist[i].spec) =>
                  OutcomeOf(i).err = "none" /\ OutcomeOf(i).val = hist[i - 1].val
            /\ hist[i - 1].op = "clear" => OutcomeOf(i).err = "ResolutionError"

----------------------------------------------------------------------------
(* Validation of what a provider returns, ahead of caching and tracking *)

\* the provider p whose instances expose cleanup c, which raises fl (or "ok")
Closable(p, c, fl) == [p EXCEPT !.cap = c, !.fail = fl]

\* one token of each scope; each provider returns instances with close(),
\* of the token's type or not
InitValidate ==
    /\ InitSeqKind
    /\ tscope = [A |-> "SINGLETON", B |-> "REQUEST", C |-> "TRANSIENT"]
    /\ token_scopes = [t \in Tokens |-> "unset"]
    /\ \E o \in [Tokens -> {"ok", "badtype"}] :
          providers = [t \in Tokens |-> Closable(Prov("sync", NoDep, o[t]), "close", "ok")]
    /\ InitRun

NextValidate ==
    \/ \E t \in Tokens : Call(SeqFlow, t, MaxSeqOps)
    \/ Acquire(SeqFlow)
    \/ ProvFinish(SeqFlow)
    \/ Unwind(SeqFlow)
    \/ EnterRequest(SeqFlow, MaxBlocks)
    \/ ExitRequest(SeqFlow)

SpecValidate == InitValidate /\ [][NextValidate]_vars

\* flow f is in a provider whose return value is not of the token's type
ReturnsBadType(f) ==
    /\ stack[f] # <<>> /\ exc[f] = NoExc
    /\ Top(f).pc = "inprov"
    /\ ~Validates(Top(f).prov)

\* C14: when a provider returns a value that is not of the token's type,
\* get/aget raises the type error and the singleton cache, the scope
\* frames and the tracked resources stay as they were.
C14_ValidatedBeforeCached ==
    [][\A f \in Flows :
          (ReturnsBadType(f) /\ stack'[f] # stack[f]) =>
              /\ exc'[f].kind = "TypeError"
              /\ singletons' = singletons
              /\ frames' = frames
              /\ resources' = resources]_vars

\* type errors were raised for a SINGLETON token and, inside a request
\* block, for a REQUEST token, while a well-typed instance is tracked
C14_Witness ==
    /\ \E i \in 1 .. Len(outs[SeqFlow]) :
          outs[SeqFlow][i].tok = "A" /\ outs[SeqFlow][i].err = "TypeError"
    /\ \E i \in 1 .. Len(outs[SeqFlow]) :
          /\ outs[SeqFlow][i].tok = "B" /\ outs[SeqFlow][i].err = "TypeError"
          /\ outs[SeqFlow][i].blk # <<>>
    /\ Len(resources) = 1
    /\ singletons["A"] = None

----------------------------------------------------------------------------
(* Teardown: exit of `with container:`, aclose(), request-scope exit *)

\* what a resource can expose for cleanup: close(), aclose(), __aexit__,
\* or a coroutine close()
Caps == {"close", "aclose", "aexit", "coclose"}
AsyncCaps == {"aclose", "aexit", "coclose"}
\* what a cleanup callable does: return, or raise an exception of that class
Fails == {"ok", "Exception", "RuntimeError"}

\* Container.__exit__, the loop over reversed(self._resources) from resource
\* i down: the resources whose close() was called, and the error that left
\* the loop
RECURSIVE ExitRun(_)
ExitRun(i) ==
    IF i = 0 THEN [done |-> <<>>, err |-> "none"]
    ELSE IF resources[i].cap \in AsyncCaps THEN [done |-> <<>>, err |-> "RuntimeError"]
    ELSE IF resources[i].fail = "RuntimeError" THEN [done |-> <<i>>, err |-> "RuntimeError"]
    ELSE [done |-> <<i>> \o ExitRun(i - 1).done, err |-> ExitRun(i - 1).err]

\* the end of teardown operation op of flow f over n tracked resources
Ended(op, f, n, e) == [op |-> op, flow |-> f, spec |-> NoDep, val |-> n, err |-> e]

\* `with container: pass`: Container.__exit__
SyncExit(f) ==
    /\ stack[f] = <<>> /\ exc[f] = NoExc
    /\ teardown = Idle
    /\ Ops < MaxEvents
    /\ LET run == ExitRun(Len(resources))
       IN hist' = hist \o [k \in 1 .. Len(run.done) |-> Cleanup(f, "exit", run.done[k])]
                       \o <<Ended("exit", f, Len(resources), run.err)>>
    /\ UNCHANGED <<stats, cfgvars, teardown, lockvars, ctxvars, singletons, resources, calls,
                   stack, rstack, exc, outs, running, ncancel>>

\* Container.aclose -> __aexit__, the loop: a task is created for every
\* async cleanup, every sync close() is handed to the executor
ACloseStart(f) ==
    /\ IsTask(f)
    /\ stack[f] = <<>> /\ exc[f] = NoExc
    /\ teardown = Idle
    /\ Ops < MaxEvents
    /\ teardown' = [by    |-> f,
                    tasks |-> SelectSeq(Descending(Len(resources)),
                                        LAMBDA i : resources[i].cap \in AsyncCaps),
                    jobs  |-> {i \in 1 .. Len(resources) : resources[i].cap = "close"}]
    /\ UNCHANGED <<stats, cfgvars, hist, lockvars, ctxvars, singletons, resources, calls,
                   stack, rstack, exc, outs, running, ncancel>>

\* the event loop starts the oldest cleanup task not yet started
ACleanTask(f) ==
    /\ teardown.by = f
    /\ teardown.tasks # <<>>
    /\ hist' = Append(hist, Cleanup(f, "aclose", Head(teardown.tasks)))
    /\ teardown' = [teardown EXCEPT !.tasks = Tail(@)]
    /\ UNCHANGED <<stats, cfgvars, lockvars, ctxvars, singletons, resources, calls,
                   stack, rstack, exc, outs, running, ncancel>>

\* a worker thread of the executor calls a close() handed to it
ACleanJob(f) ==
    /\ teardown.by = f
    /\ \E i \in teardown.jobs :
          /\ hist' = Append(hist, Cleanup(f, "aclose", i))
          /\ teardown' = [teardown EXCEPT !.jobs = @ \ {i}]
    /\ UNCHANGED <<stats, cfgvars, lockvars, ctxvars, singletons, resources, calls,
                   stack, rstack, exc, outs, running, ncancel>>

\* gather(*tasks, return_exceptions=True) returns, then Container.clear()
ACloseFinish(f) ==
    /\ teardown.by = f
    /\ teardown.tasks = <<>> /\ teardown.jobs = {}
    /\ Cleared(f)
    /\ teardown' = Idle
    /\ hist' = Append(hist, Ended("aclose", f, Len(resources), "none"))
    /\ UNCHANGED <<twin, di, kind, tscope, token_scopes, lockvars, ovr, ovsaved, nblocks,
                   resources, calls, stack, rstack, exc, outs, running, ncancel>>

\* A and B are SINGLETON tokens whose instances expose any cleanup, which
\* for A may raise; C has no provider
InitTeardown ==
    /\ InitSeqKind
    /\ tscope = [A |-> "SINGLETON", B |-> "SINGLETON", C |-> "TRANSIENT"]
    /\ token_scopes = [t \in Tokens |-> "unset"]
    /\ \E c \in [{"A", "B"} -> Caps], x \in Fails :
          providers = [t \in Tokens |->
                          IF t = "C" THEN NoProvider
                          ELSE Closable(Prov("sync", NoDep, "ok"), c[t],
                                        IF t = "A" THEN x ELSE "ok")]
    /\ InitRun

NextTeardown ==
    \/ \E t \in {"A", "B"} : teardown = Idle /\ GetBySpec(SeqFlow, t)
    \/ Acquire(SeqFlow)
    \/ ProvFinish(SeqFlow)
    \/ Unwind(SeqFlow)
    \/ SyncExit(SeqFlow)
    \/ ACloseStart(SeqFlow)
    \/ ACleanTask(SeqFlow)
    \/ ACleanJob(SeqFlow)
    \/ ACloseFinish(SeqFlow)

SpecTeardown == InitTeardown /\ [][NextTeardown]_vars

\* events p and q of the history are cleanups invoked by one container
\* teardown (one exit of `with container:`, or one aclose)
SameTeardown(p, q) ==
    /\ p < q
    /\ \A k \in p .. q : hist[k].op = "cleanup" /\ hist[k].spec = hist[p].spec
    /\ hist[p].spec \in {"exit", "aclose"}

\* C15: within one container teardown, sync exit or aclose, the cleanup of
\* a resource is invoked before the cleanup of every resource tracked
\* earlier.
C15_ReverseOrder ==
    \A p, q \in 1 .. Len(hist) :
        SameTeardown(p, q) => hist[p].val > hist[q].val

\* C16: over every sequence of teardown operations (request-scope exit,
\* exit of `with container:`, aclose, repeated or not), the cleanup
\* callable of each tracked resource is invoked at most once.
C16_CleanupAtMostOnce ==
    \A p, q \in 1 .. Len(hist) :
        (p < q /\ hist[p].op = "cleanup" /\ hist[q].op = "cleanup") =>
            hist[p].val # hist[q].val

\* the cleanups that the teardown ended by event m invoked
CleanupsOf(m) ==
    {p \in 1 .. m - 1 : \A k \in p .. m - 1 : hist[k].op = "cleanup"}

\* C17: for a SINGLETON token whose instance exposes aclose(), an awaited
\* container.aclose() invokes that aclose() exactly once and leaves the
\* provider table and the singleton cache empty; a get of the token that
\* follows raises ResolutionError.
C17_ACloseOnceThenEmpty ==
    \A m \in 1 .. Len(hist) :
        hist[m].op = "aclose" =>
            /\ \A i \in 1 .. hist[m].val :
                  resources[i].cap = "aclose" =>
                      Cardinality({p \in CleanupsOf(m) : hist[p].val = i}) = 1
            /\ m = Len(hist) =>
                  /\ \A t \in Tokens : providers[t].kind = "none"
                  /\ singletons = EmptyMap
            /\ (m < Len(hist) /\ GetDone(m + 1)) =>
                  OutcomeOf(m + 1).err = "ResolutionError"

\* aget(A) twice for a SINGLETON token A whose instance has aclose(), then
\* aclose() during which A's aclose() ran, then a get of A that raised
C17_Witness ==
    /\ Len(hist) = 5
    /\ hist[1].op = "get" /\ hist[1].spec = "A"
    /\ hist[2].op = "get" /\ hist[2].spec = "A"
    /\ hist[3].op = "cleanup" /\ resources[hist[3].val].cap = "aclose"
    /\ hist[4].op = "aclose"
    /\ hist[5].op = "get" /\ hist[5].spec = "A"
    /\ GetDone(5) /\ OutcomeOf(5).err = "ResolutionError"
    /\ kind[SeqFlow] = "task"
    /\ outs[SeqFlow][1].val = outs[SeqFlow][2].val /\ outs[SeqFlow][1].err = "none"

\* the tracked resources that need async cleanup, among the first n
NeedAsync(n) == {i \in 1 .. n : resources[i].cap \in AsyncCaps}

\* C18: the exit of `with container:` raises AsyncCleanupRequiredError
\* whenever a tracked resource requires async cleanup, whatever its
\* position among the tracked resources.
C18_AsyncCleanupRequired ==
    \A m \in 1 .. Len(hist) :
        (hist[m].op = "exit" /\ NeedAsync(hist[m].val) # {}) =>
            hist[m].err = "AsyncCleanupRequiredError"

\* C19: when a cleanup callable raises during a container teardown (sync
\* exit over sync-only resources, or aclose), the teardown does not raise
\* and the cleanup of every tracked resource is invoked.
C19_CleanupErrorsSwallowed ==
    \A m \in 1 .. Len(hist) :
        (/\ hist[m].op \in {"exit", "aclose"}
         /\ hist[m].op = "exit" => NeedAsync(hist[m].val) = {}
         /\ \E p \in CleanupsOf(m) : hist[p].err # "ok") =>
            /\ hist[m].err = "none"
            /\ \A i \in 1 .. hist[m].val : \E p \in CleanupsOf(m) : hist[p].val = i

----------------------------------------------------------------------------
(* A SINGLETON provider that raises, and the calls that follow *)

\* A is registered with scope SINGLETON and its provider raises, always
\* or the first time only; B is a SINGLETON token that A may depend on
InitRetry ==
    /\ InitSeqKind
    /\ tscope = [A |-> "TRANSIENT", B |-> "SINGLETON", C |-> "TRANSIENT"]
    /\ token_scopes = [A |-> "SINGLETON", B |-> "unset", C |-> "unset"]
    /\ \E k \in {"sync", "async"}, d \in {NoDep, "B"},
          oa \in {"raise", "raise1"}, ob \in {"ok", "raise1"} :
          /\ k = "async" => kind[SeqFlow] = "task"
          /\ providers = [t \in Tokens |->
                             CASE t = "A" -> Prov(k, d, oa)
                               [] t = "B" -> Prov(k, NoDep, ob)
                               [] OTHER   -> NoProvider]
    /\ InitRun

NextRetry ==
    \/ \E t \in {"A", "B"} : Call(SeqFlow, t, MaxSeqOps)
    \/ Acquire(SeqFlow)
    \/ ProvCallDep(SeqFlow)
    \/ ProvFinish(SeqFlow)
    \/ Unwind(SeqFlow)

SpecRetry == InitRetry /\ [][NextRetry]_vars

\* flow f is between two top-level calls
Between(f) == stack[f] = <<>> /\ exc[f] = NoExc

\* C20: when the provider of a SINGLETON token raises during get/aget, the
\* call ends with that exception and returns nothing, the token stays
\* out of the singleton cache and its lock is free once the call is over; a
\* later call invokes the provider again, and when that invocation
\* succeeds its result is returned, cached, and returned by the calls after.
C20_FailedInitRetried ==
    \A t \in Tokens :
        (EffScope(t) = "SINGLETON" /\ providers[t].out \in {"raise", "raise1"}) =>
            /\ \A i \in CallsOf(SeqFlow, t) :
                  \/ outs[SeqFlow][i].err = "ProviderError" /\ outs[SeqFlow][i].val = None
                  \/ /\ providers[t].out = "raise1"
                     /\ outs[SeqFlow][i].err = "none" /\ outs[SeqFlow][i].val = Inst(t, 2)
            /\ providers[t].out = "raise1" =>
                  /\ calls[t] <= 2
                  /\ \A i, j \in CallsOf(SeqFlow, t) : i < j => outs[SeqFlow][j].err = "none"
            /\ Between(SeqFlow) =>
                  /\ sync_lock[t] = NoOne /\ async_lock[t] = NoOne
                  /\ singletons[t] = IF providers[t].out = "raise1" /\ calls[t] = 2
                                     THEN Inst(t, 2) ELSE None
                  /\ (providers[t].out = "raise" /\ NotADep(t)) =>
                        calls[t] = Cardinality(CallsOf(SeqFlow, t))

\* get(A) raised, the next get(A) invoked the provider again and returned
\* its second instance, and a third get(A) returned that instance from the cache
C20_Witness ==
    /\ Len(outs[SeqFlow]) = 3
    /\ \A i \in 1 .. 3 : outs[SeqFlow][i].call = "A"
    /\ outs[SeqFlow][1].err = "ProviderError"
    /\ outs[SeqFlow][2].err = "none" /\ outs[SeqFlow][2].val = Inst("A", 2)
    /\ outs[SeqFlow][3].err = "none" /\ outs[SeqFlow][3].val = Inst("A", 2)
    /\ calls["A"] = 2
    /\ singletons["A"] = Inst("A", 2)
    /\ sync_lock["A"] = NoOne /\ async_lock["A"] = NoOne

----------------------------------------------------------------------------
(* Errors of sync get: async providers and unregistered tokens (SpecCycle) *)

\* C21: a sync get of a token whose provider is async fails with
\* AsyncProviderInSyncContextError in every scope and the provider is never
\* invoked; a get of a token without provider fails with ResolutionError
\* for that token.
C21_AsyncProviderInSync ==
    \A f \in Flows :
        ~IsTask(f) =>
            \A i \in Finished(f) :
                LET t == outs[f][i].call IN
                /\ providers[t].kind = "async" =>
                      /\ outs[f][i].err = "AsyncProviderInSyncContextError"
                      /\ calls[t] = 0
                /\ providers[t].kind = "none" =>
                      outs[f][i].err = "ResolutionError" /\ outs[f][i].tok = t

----------------------------------------------------------------------------
(* register(token, provider, scope=X): the scope recorded beside the token *)

\* token A has any scope of its own and is registered, once or again, with
\* scope SINGLETON or TRANSIENT
InitScope ==
    /\ InitSeqKind
    /\ \E s \in Scopes : tscope = [A |-> s, B |-> "SINGLETON", C |-> "TRANSIENT"]
    /\ token_scopes = [t \in Tokens |-> "unset"]
    /\ providers = [t \in Tokens |-> NoProvider]
    /\ InitRun

NextScope ==
    \/ \E x \in {"SINGLETON", "TRANSIENT"} :
          Register(SeqFlow, "A", Prov("sync", NoDep, "ok"), x)
    \/ GetBySpec(SeqFlow, "A")
    \/ Acquire(SeqFlow)
    \/ ProvFinish(SeqFlow)
    \/ Unwind(SeqFlow)
    \/ EnterRequest(SeqFlow, MaxBlocks)
    \/ ExitRequest(SeqFlow)

SpecScope == InitScope /\ [][NextScope]_vars

\* the finished gets of token t logged after its latest registration
SinceRegister(t) ==
    {i \in 1 .. Len(hist) :
        /\ GetDone(i) /\ hist[i].spec = t
        /\ \E r \in 1 .. i - 1 : hist[r].op = "register" /\ hist[r].spec = t
        /\ \A r \in i + 1 .. Len(hist) : ~(hist[r].op = "register" /\ hist[r].spec = t)}

\* the finished gets logged before event i
GetsBefore(i) == {j \in 1 .. i - 1 : GetDone(j)}

----------------------------------------------------------------------------
(* A registered value and a provider registered after it (SpecValue) *)

\* no clear() is logged from event a to event b
NoClear(a, b) == \A k \in a .. b : hist[k].op # "clear"

\* C23: after register_value(t, v), a register(t, provider) for the same
\* token or type does not evict v: until clear() is called, every get(t)
\* afterwards returns v, which no provider built.
C23_ValueSurvivesRegister ==
    \A v, r, g \in 1 .. Len(hist) :
        (/\ v < r /\ r < g
         /\ hist[v].op = "register_value"
         /\ hist[r].op = "register" /\ hist[r].spec = hist[v].spec
         /\ GetDone(g) /\ hist[g].spec = hist[v].spec
         /\ NoClear(v, g)) =>
            /\ OutcomeOf(g).err = "none"
            /\ OutcomeOf(g).val = hist[v].val

----------------------------------------------------------------------------
(* The registry: register and has with tokens, types, strings and
   providers that are not callable *)

\* Container.has(token | type); no givens are declared in these scenarios
Has(s) ==
    IF s \in Types
    THEN providers[Fabricated(s)].kind # "none" \/ singletons[Fabricated(s)] # None
    ELSE IF s \in Tokens
    THEN providers[s].kind # "none" \/ singletons[s] # None
    ELSE s \in strreg.prov

\* a call of has(s): the logged event carries the answer (1: true)
HasQuery(f, s) ==
    /\ stack[f] = <<>> /\ exc[f] = NoExc
    /\ Ops < MaxEvents
    /\ hist' = Append(hist, Event("has", f, s, IF Has(s) THEN 1 ELSE 0))
    /\ UNCHANGED <<stats, cfgvars, teardown, lockvars, ctxvars, singletons, resources, calls,
                   stack, rstack, exc, outs, running, ncancel>>

NextRegistry ==
    \/ \E s \in {"A"} \cup Types \cup Strings, sc \in {"unset", "SINGLETON"},
          p \in {Prov("sync", NoDep, "ok"), NotCallable} : Register(SeqFlow, s, p, sc)
    \/ \E s \in {"A"} \cup Types : RegisterValue(SeqFlow, s)
    \/ \E s \in {"A"} \cup Types \cup Strings : HasQuery(SeqFlow, s)
    \/ \E s \in Strings : GetBySpec(SeqFlow, s)

SpecRegistry == InitValue /\ [][NextRegistry]_vars

\* the type a specifier stands for
SpecType(s) == IF s \in Tokens THEN TypeOf(s) ELSE s

\* event r registered a provider or a value for specifier s
Registers(r, s) ==
    /\ hist[r].spec = s
    /\ \/ hist[r].op = "register_value"
       \/ hist[r].op = "register" /\ hist[r].val = 1

\* C24: has(s) is true after register(s, p), with any scope, or
\* register_value(s, v), for s a token or a type, and false when nothing
\* was ever registered for the specifier.
C24_HasAfterRegister ==
    \A i \in 1 .. Len(hist) :
        (hist[i].op = "has" /\ hist[i].spec \in Tokens \cup Types) =>
            /\ (\E r \in 1 .. i - 1 : Registers(r, hist[i].spec)) => hist[i].val = 1
            /\ (\A r \in 1 .. i - 1 :
                   hist[r].op \in {"register", "register_value"} =>
                       SpecType(hist[r].spec) # SpecType(hist[i].spec)) => hist[i].val = 0

\* flow f registers in this step, for a token or a type, a provider that is
\* not callable
RegistersNotCallable(f) ==
    /\ Len(hist') = Len(hist) + 1
    /\ Last(hist').op = "register" /\ Last(hist').flow = f
    /\ Last(hist').val = 0
    /\ Last(hist').spec \in Tokens \cup Types

\* C25: register with a provider that is not callable raises the
\* invalid-provider error and leaves the provider table, the recorded
\* scopes and the singleton cache as they were, also when a scope is passed.
C25_InvalidProviderNoChange ==
    [][\A f \in Flows :
          RegistersNotCallable(f) =>
              /\ Last(hist').err = "TypeError"
              /\ providers' = providers
              /\ token_scopes' = token_scopes
              /\ singletons' = singletons]_vars

\* C26: register, get and aget with a string as specifier raise the
\* invalid-specifier error, and register stores no provider under the
\* string.
C26_StringsRejected ==
    /\ strreg.prov = {}
    /\ \A i \in 1 .. Len(hist) :
          hist[i].spec \in Strings =>
              /\ hist[i].op = "register" => hist[i].err # "none"
              /\ GetDone(i) => OutcomeOf(i).err = "TypeError"

----------------------------------------------------------------------------
(* clear_overrides inside use_overrides blocks *)

\* a clear_overrides that falls back to the overrides of the enclosing block
ClearedOverrides_ToEnclosing(f) ==
    IF ovsaved[f] = <<>> THEN Unset ELSE Last(ovsaved[f]).prev

\* Container.clear_overrides: the ContextVar of the flow is set to None
ClearedOverrides(f) == Unset

\* a call of clear_overrides(); the blocks that are open stay open
ClearOverrides(f) ==
    /\ stack[f] = <<>> /\ exc[f] = NoExc
    /\ Ops < MaxEvents
    /\ ovr' = [ovr EXCEPT ![f] = ClearedOverrides(f)]
    /\ hist' = Append(hist, Event("clear_overrides", f, NoDep, None))
    /\ UNCHANGED <<stats, cfgvars, teardown, lockvars, ovsaved, frames, nblocks, singletons,
                   resources, calls, stack, rstack, exc, outs, running, ncancel>>

NextClearOv ==
    \/ GetBySpec(SeqFlow, "A")
    \/ ProvFinish(SeqFlow)
    \/ \E x \in OvValues(SeqFlow, "A") : EnterOverrides(SeqFlow, "A", x, MaxOvNest)
    \/ ExitOverrides(SeqFlow)
    \/ ClearOverrides(SeqFlow)

SpecClearOv == InitNest /\ [][NextClearOv]_vars

\* flow f calls clear_overrides() in this step
ClearsOverrides(f) ==
    /\ Len(hist') = Len(hist) + 1
    /\ Last(hist').op = "clear_overrides" /\ Last(hist').flow = f

\* the objects that the blocks of flow f bind token t to
OwnObjs(f, t) == {OvObj(f, t, d) : d \in 1 .. MaxOvNest + 1}

\* C27: clear_overrides() leaves the flow without overrides, whatever the
\* blocks around the call bind, and leaves those blocks open; a get issued
\* while the flow has no overrides is not answered by a block's binding;
\* and the exit of a block, also after a clear_overrides, puts back the
\* overrides that were in force when the block was entered.
C27_ClearOverridesEmpties ==
    [][\A f \in Flows :
          /\ ClearsOverrides(f) =>
                /\ ~ovr'[f].set
                /\ \A t \in Tokens : ovr'[f].map[t] = None
                /\ ovsaved'[f] = ovsaved[f]
          /\ (Calls(f, "A") /\ ~ovr[f].set) =>
                Last(outs'[f]).val \notin OwnObjs(f, "A")
          /\ Len(ovsaved'[f]) < Len(ovsaved[f]) =>
                ovr'[f] = Last(ovsaved[f]).prev]_vars

\* inside two nested blocks that bind A, after clear_overrides(), get(A)
\* was answered by the provider; the inner block was left and the binding
\* of the outer block is in force again
C27_Witness ==
    /\ Len(hist) = 2
    /\ hist[1].op = "clear_overrides"
    /\ GetDone(2) /\ OutcomeOf(2).val = Inst("A", 1)
    /\ Len(ovsaved[SeqFlow]) = 1
    /\ ovsaved[SeqFlow][1].val = OvObj(SeqFlow, "A", 1)
    /\ ovr[SeqFlow].set /\ ovr[SeqFlow].map["A"] = OvObj(SeqFlow, "A", 1)

----------------------------------------------------------------------------
(* clear() with caches, scope frames and overrides in place *)

\* A is a singleton, B is request-scoped, C is transient; each has a provider
InitClear ==
    /\ InitSeqKind
    /\ tscope = [A |-> "SINGLETON", B |-> "REQUEST", C |-> "TRANSIENT"]
    /\ token_scopes = [t \in Tokens |-> "unset"]
    /\ providers = [t \in Tokens |-> Prov("sync", NoDep, "ok")]
    /\ InitRun

NextClear ==
    \/ \E t \in {"A", "B"} : GetBySpec(SeqFlow, t)
    \/ Acquire(SeqFlow)
    \/ ProvFinish(SeqFlow)
    \/ EnterRequest(SeqFlow, MaxNest)
    \/ ExitRequest(SeqFlow)
    \/ \E x \in OvValues(SeqFlow, "A") \ {None} : EnterOverrides(SeqFlow, "A", x, MaxNest)
    \/ ExitOverrides(SeqFlow)
    \/ Clear(SeqFlow)

SpecClear == InitClear /\ [][NextClear]_vars

\* flow f calls clear() in this step
Clears(f) ==
    /\ Len(hist') = Len(hist) + 1
    /\ Last(hist').op = "clear" /\ Last(hist').flow = f

\* C28: when clear() returns, no token has a provider, the singleton cache
\* and the caches of the caller's scope frames are empty and the caller has
\* no overrides in force, also inside open use_overrides blocks; a get
\* issued in that state raises ResolutionError.
C28_ClearEmptiesAll ==
    [][\A f \in Flows :
          /\ Clears(f) =>
                /\ \A t \in Tokens : providers'[t] = NoProvider
                /\ singletons' = EmptyMap
                /\ \A i \in 1 .. Len(frames'[f]) : frames'[f][i].cache = EmptyMap
                /\ ~ovr'[f].set
                /\ \A t \in Tokens : ovr'[f].map[t] = None
          /\ \A t \in Tokens :
                (/\ Calls(f, t)
                 /\ hist # <<>> /\ Last(hist).op = "clear"
                 /\ ~ovr[f].set) =>
                    Last(outs'[f]).err = "ResolutionError"]_vars

----------------------------------------------------------------------------
(* REQUEST and SESSION tokens resolved with and without a frame *)

\* ContextualContainer.session_scope, entry: a fresh session frame
EnterSession(f, limit) ==
    /\ stack[f] = <<>> /\ exc[f] = NoExc
    /\ Len(frames[SessionOf(f)]) < MaxNest
    /\ nblocks[f] < limit
    /\ nblocks' = [nblocks EXCEPT ![f] = @ + 1]
    /\ frames' = [frames EXCEPT ![SessionOf(f)] =
                     Append(@, [id |-> nblocks[f] + 1, cache |-> EmptyMap])]
    /\ UNCHANGED <<stats, cfgvars, hist, teardown, lockvars, ovr, ovsaved, singletons, resources,
                   calls, stack, rstack, exc, outs, running, ncancel>>

\* the cleanups that leaving the innermost session frame of flow f invokes
SessionCleanups(f) ==
    [k \in 1 .. Len(FrameResources(SessionOf(f))) |->
        Cleanup(f, "session_exit", FrameResources(SessionOf(f))[k])]

\* ContextualContainer.session_scope, exit: the innermost session frame is
\* dropped and what it holds is cleaned up
ExitSession(f) ==
    /\ stack[f] = <<>> /\ exc[f] = NoExc
    /\ frames[SessionOf(f)] # <<>>
    /\ frames' = [frames EXCEPT ![SessionOf(f)] = SubSeq(@, 1, Len(@) - 1)]
    /\ hist' = hist \o SessionCleanups(f)
    /\ UNCHANGED <<stats, cfgvars, teardown, lockvars, ovr, ovsaved, nblocks, singletons,
                   resources, calls, stack, rstack, exc, outs, running, ncancel>>

\* A is request-scoped, B is session-scoped; the flow is a thread (get) or a
\* task (aget)
InitNoFrame ==
    /\ InitSeqKind
    /\ tscope = [A |-> "REQUEST", B |-> "SESSION", C |-> "TRANSIENT"]
    /\ token_scopes = [t \in Tokens |-> "unset"]
    /\ providers = [t \in Tokens |-> Prov("sync", NoDep, "ok")]
    /\ InitRun

NextNoFrame ==
    \/ \E t \in {"A", "B"} : Call(SeqFlow, t, MaxSeqOps)
    \/ ProvFinish(SeqFlow)
    \/ EnterRequest(SeqFlow, MaxBlocks)
    \/ ExitRequest(SeqFlow)
    \/ EnterSession(SeqFlow, MaxBlocks)
    \/ ExitSession(SeqFlow)

SpecNoFrame == InitNoFrame /\ [][NextNoFrame]_vars

\* the finished calls for token t that flow f issued while no frame of the
\* token's scope was active
Bare(f, t) ==
    {i \in CallsOf(f, t) :
        IF EffScope(t) = "SESSION" THEN outs[f][i].ses = <<>> ELSE outs[f][i].blk = <<>>}

\* C29: the gets of a REQUEST or SESSION token issued while no frame of that
\* scope is active each return an instance fresh from the provider, pairwise
\* distinct; none of these instances is in the singleton cache or in a
\* frame, and no get issued inside a frame returns one of them.
C29_NoFrameNoCache ==
    \A f \in Flows : \A t \in {"A", "B"} :
        /\ \A i \in Bare(f, t) :
              /\ outs[f][i].err = "none"
              /\ \E n \in 1 .. calls[t] : outs[f][i].val = Inst(t, n)
              /\ \A j \in Bare(f, t) : j # i => outs[f][j].val # outs[f][i].val
              /\ \A k \in CallsOf(f, t) \ Bare(f, t) : outs[f][k].val # outs[f][i].val
              /\ \A g \in DOMAIN frames : \A d \in 1 .. Len(frames[g]) :
                    frames[g][d].cache[t] # outs[f][i].val
        /\ calls[t] >= Cardinality(Bare(f, t))
        /\ singletons[t] = None

\* two gets of the session-scoped token outside a session, the second one
\* inside a request block, returned two instances; a get inside a session
\* entered afterwards returned a third one, which the session frame holds
C29_Witness ==
    /\ Len(outs[SeqFlow]) = 3
    /\ \A i \in 1 .. 3 : outs[SeqFlow][i].call = "B" /\ outs[SeqFlow][i].err = "none"
    /\ outs[SeqFlow][1].ses = <<>> /\ outs[SeqFlow][1].blk = <<>>
    /\ outs[SeqFlow][2].ses = <<>> /\ outs[SeqFlow][2].blk # <<>>
    /\ outs[SeqFlow][3].ses # <<>>
    /\ outs[SeqFlow][1].val = Inst("B", 1)
    /\ outs[SeqFlow][2].val = Inst("B", 2)
    /\ outs[SeqFlow][3].val = Inst("B", 3)
    /\ FrameLookup(frames[SessionOf(SeqFlow)], "B") = Inst("B", 3)

----------------------------------------------------------------------------
(* The reference container di.core.Container: aget under cancellation *)

\* the token of the reference container; its async provider is providers[DiToken]
DiToken == "A"

\* the outcome of a call on the reference container: the value returned or
\* the error raised, where the value came from, and whether the call began
\* after a construction had completed with no waiter left on it
DiOutcome(op, v, e, via, late) ==
    [op |-> op, val |-> v, err |-> e, via |-> via, late |-> late]

DiLogged(f, o) == [di.outs EXCEPT ![f] = Append(@, o)]

\* flow f is suspended in aget on construction task i
WaitsOn(f, i) == di.pc[f].at \in {"wait", "join"} /\ di.pc[f].task = i

\* a construction has completed and no caller waits for it any more
Settled ==
    \E i \in 1 .. Len(di.tasks) :
        di.tasks[i] = "done" /\ \A f \in Flows : ~WaitsOn(f, i)

DiIdle == [at |-> "idle", task |-> 0, late |-> FALSE]

\* asyncio.shield(task): the cancellation of the awaiting caller leaves the
\* task in the state it has
Shielded(st) == st

\* Container.aget, up to its first suspension: the cache, the in-flight
\* record, and otherwise a new construction task, recorded as in flight; the
\* asyncio lock is free whenever a caller reaches it, since no caller
\* suspends while holding it
DiAget(f) ==
    /\ IsTask(f)
    /\ di.pc[f].at = "idle"
    /\ Len(di.outs[f]) < MaxDiOps
    /\ IF di.singletons # None
       THEN di' = [di EXCEPT !.outs = DiLogged(f, DiOutcome("aget", di.singletons, "none", "cache", Settled))]
       ELSE IF di.inflight # 0
       THEN di' = [di EXCEPT !.pc[f] = [at |-> "join", task |-> di.inflight, late |-> Settled]]
       ELSE di' = [di EXCEPT !.tasks = Append(@, "running"),
                             !.inflight = Len(di.tasks) + 1,
                             !.pc[f] = [at |-> "wait", task |-> Len(di.tasks) + 1, late |-> Settled]]
    /\ UNCHANGED <<twin, stats, kind, tscope, providers, token_scopes, strreg, lockvars, ctxvars, singletons,
                   resources, calls, stack, rstack, exc, outs, running, ncancel, hist, teardown>>

\* the construction task runs the async provider to its end: the provider
\* returns an instance, or raises (always, or on its first invocation only)
DiConstruct(i) ==
    /\ i \in 1 .. Len(di.tasks)
    /\ di.tasks[i] = "running"
    /\ di' = [di EXCEPT !.tasks[i] =
                  IF \/ providers[DiToken].out = "raise"
                     \/ providers[DiToken].out = "raise1" /\ i = 1
                  THEN "failed" ELSE "done"]
    /\ UNCHANGED <<twin, stats, kind, tscope, providers, token_scopes, strreg, lockvars, ctxvars, singletons,
                   resources, calls, stack, rstack, exc, outs, running, ncancel, hist, teardown>>

\* an in-flight record that every caller of a failed task removes
InflightAfter_AllPop(f) ==
    IF di.pc[f].at = "wait" \/ di.tasks[di.pc[f].task] = "failed" THEN 0 ELSE di.inflight

\* self._inflight.pop(token, None) on the way out of aget: only the caller
\* that awaited the task after the locked section removes the record
InflightAfter(f) ==
    IF di.pc[f].at = "wait" THEN 0 ELSE di.inflight

\* Container.aget resumes when the awaited task has ended. The caller that
\* found the task in flight returns its result or raises its exception; the
\* caller that went on to await the task after the locked section installs
\* the result in the cache and removes the in-flight record, or removes the
\* record and raises
DiResume(f) ==
    LET i    == di.pc[f].task
        late == di.pc[f].late
        ok   == di.tasks[i] = "done"
        o    == IF ok THEN DiOutcome("aget", Inst(DiToken, i), "none", "task", late)
                ELSE DiOutcome("aget", None, "ProviderError", "task", late)
    IN
    /\ di.pc[f].at \in {"wait", "join"}
    /\ di.tasks[i] \in {"done", "failed"}
    /\ di' = [di EXCEPT !.pc[f] = DiIdle,
                        !.outs = DiLogged(f, o),
                        !.singletons = IF di.pc[f].at = "wait" /\ ok THEN Inst(DiToken, i) ELSE @,
                        !.inflight = InflightAfter(f)]
    /\ UNCHANGED <<twin, stats, kind, tscope, providers, token_scopes, strreg, lockvars, ctxvars, singletons,
                   resources, calls, stack, rstack, exc, outs, running, ncancel, hist, teardown>>

\* a caller suspended in aget is cancelled: CancelledError, which is not an
\* Exception, leaves aget past both the except and the else branch
DiCancel(f) ==
    /\ di.pc[f].at \in {"wait", "join"}
    /\ di' = [di EXCEPT !.pc[f] = DiIdle,
                        !.tasks[di.pc[f].task] = Shielded(@),
                        !.outs = DiLogged(f, DiOutcome("aget", None, "CancelledError", "none", di.pc[f].late))]
    /\ UNCHANGED <<twin, stats, kind, tscope, providers, token_scopes, strreg, lockvars, ctxvars, singletons,
                   resources, calls, stack, rstack, exc, outs, running, ncancel, hist, teardown>>

\* Container.get on a token that has an async provider only: the cache, or
\* KeyError
DiGet(f) ==
    /\ ~IsTask(f)
    /\ Len(di.outs[f]) < MaxDiOps
    /\ di' = [di EXCEPT !.outs = DiLogged(f,
                  IF di.singletons # None
                  THEN DiOutcome("get", di.singletons, "none", "cache", Settled)
                  ELSE DiOutcome("get", None, "KeyError", "none", Settled))]
    /\ UNCHANGED <<twin, stats, kind, tscope, providers, token_scopes, strreg, lockvars, ctxvars, singletons,
                   resources, calls, stack, rstack, exc, outs, running, ncancel, hist, teardown>>

\* every mix of threads and tasks; register_async(DiToken, p) for a provider
\* that returns or raises
InitDi ==
    /\ \E n \in 0 .. NFlows : kind = [f \in Flows |-> IF f <= n THEN "thread" ELSE "task"]
    /\ tscope = [t \in Tokens |-> "SINGLETON"]
    /\ token_scopes = [t \in Tokens |-> "unset"]
    /\ \E o \in {"ok", "raise", "raise1"} :
          providers = [t \in Tokens |-> IF t = DiToken THEN Prov("async", NoDep, o) ELSE NoProvider]
    /\ InitRun

NextDi ==
    \/ \E f \in Flows : DiAget(f)
    \/ \E i \in 1 .. NFlows * MaxDiOps : DiConstruct(i)
    \/ \E f \in Flows : DiResume(f)
    \/ \E f \in Flows : DiCancel(f)
    \/ \E f \in Flows : DiGet(f)

SpecDi == InitDi /\ [][NextDi]_vars

\* C30: in the reference container no construction task is ever cancelled;
\* once a construction has completed and no caller waits for it any more,
\* also when every caller that waited was cancelled, its result is in the
\* singleton cache and it is no longer recorded as in flight; a get or aget
\* that begins after that returns the instance from the cache.
C30_ConstructionSurvivesCancel ==
    /\ \A i \in 1 .. Len(di.tasks) :
          /\ di.tasks[i] # "cancelled"
          /\ (di.tasks[i] = "done" /\ \A f \in Flows : ~WaitsOn(f, i)) =>
                di.singletons = Inst(DiToken, i) /\ di.inflight # i
    /\ \A f \in Flows : \A k \in 1 .. Len(di.outs[f]) :
          di.outs[f][k].late =>
              /\ di.outs[f][k].err = "none"
              /\ di.outs[f][k].via = "cache"
              /\ \E i \in 1 .. Len(di.tasks) : di.outs[f][k].val = Inst(DiToken, i)

----------------------------------------------------------------------------
(* The reference container: a construction that fails *)

\* construction task i has failed and no caller waits for it any more
FailedSettled(i) ==
    di.tasks[i] = "failed" /\ \A f \in Flows : ~WaitsOn(f, i)

\* flow f leaves aget in this step with an outcome other than cancellation
DiReturns(f) ==
    /\ Len(di'.outs[f]) = Len(di.outs[f]) + 1
    /\ Last(di'.outs[f]).op = "aget"
    /\ Last(di'.outs[f]).err # "CancelledError"

\* flow f enters aget in this step
DiEnters(f) ==
    /\ di.pc[f].at = "idle"
    /\ \/ di'.pc[f].at # "idle"
       \/ Len(di'.outs[f]) = Len(di.outs[f]) + 1 /\ Last(di'.outs[f]).op = "aget"

\* C31: in the reference container, every caller that awaits a construction
\* task that has failed leaves aget with the provider's error; the failed
\* task's result is never in the singleton cache; once no caller waits for
\* the failed task it is no longer recorded as in flight, also when callers
\* were cancelled; and an aget that begins then starts a new construction.
C31_FailureNotReplayed ==
    [][\A i \in 1 .. Len(di.tasks) :
          /\ \A f \in Flows :
                (WaitsOn(f, i) /\ di.tasks[i] = "failed" /\ DiReturns(f)) =>
                    /\ Last(di'.outs[f]).err = "ProviderError"
                    /\ di'.singletons = di.singletons
          /\ di.tasks[i] = "failed" => di.singletons # Inst(DiToken, i)
          /\ FailedSettled(i) => di.inflight # i
          /\ \A f \in Flows :
                (FailedSettled(i) /\ i = Len(di.tasks) /\ DiEnters(f)) =>
                    /\ Len(di'.tasks) = Len(di.tasks) + 1
                    /\ di'.tasks[i + 1] = "running"]_vars

----------------------------------------------------------------------------
(* The reference container: single flight *)

\* the construction tasks whose provider invocation is in progress
DiRunning == {i \in 1 .. Len(di.tasks) : di.tasks[i] = "running"}

\* C32: in the reference container at most one invocation of the token's
\* provider is in progress at any moment, also when a new construction was
\* started after a failed one whose callers have not all left aget.
C32_DiSingleFlight == Cardinality(DiRunning) <= 1

\* a second construction is in progress while a caller still waits on the
\* first one, which failed
C32_Witness ==
    /\ Len(di.tasks) = 2
    /\ di.tasks[1] = "failed" /\ di.tasks[2] = "running"
    /\ \E f \in Flows : WaitsOn(f, 1)

----------------------------------------------------------------------------
(* Blocking providers reached through aget *)

\* C33: while a synchronous provider invoked by aget runs, the calling task
\* does not hold the token's async lock for it.
C33_NoSyncProviderUnderAsyncLock ==
    \A f \in Flows : \A k \in 1 .. Len(stack[f]) :
        (/\ stack[f][k].pc = "inprov"
         /\ stack[f][k].mode = "aget"
         /\ stack[f][k].prov.kind = "sync") =>
            ~(stack[f][k].lock = "aget" /\ async_lock[stack[f][k].tok] = f)

----------------------------------------------------------------------------
(* Tasks resolving a request-scoped token inside one request block *)

\* flow 1 is a task that enters request blocks; the other flows are tasks
\* it spawns, which see its frames; A is request-scoped with an async
\* provider, which suspends the task that awaits it and returns or raises
InitShared ==
    /\ kind = [f \in Flows |-> IF f = 1 THEN "task" ELSE "child"]
    /\ tscope = [A |-> "REQUEST", B |-> "SINGLETON", C |-> "TRANSIENT"]
    /\ token_scopes = [t \in Tokens |-> "unset"]
    /\ \E o \in {"ok", "raise", "raise1"} :
          providers = [t \in Tokens |-> IF t = "A" THEN Prov("async", NoDep, o) ELSE NoProvider]
    /\ InitRun

\* the tasks call aget inside a block, which is left only when no task is
\* inside aget
NextShared ==
    \/ \E f \in Flows : frames[1] # <<>> /\ Call(f, "A", MaxOps)
    \/ \E f \in Flows : ProvFinish(f)
    \/ \E f \in Flows : Unwind(f)
    \/ EnterRequest(1, MaxBlocks)
    \/ (\A f \in Flows : stack[f] = <<>>) /\ ExitRequest(1)

SpecShared == InitShared /\ [][NextShared]_vars

\* C34: the aget calls for the request-scoped token that tasks issue inside
\* one and the same request block all return the same instance.
C34_RequestSingleFlight ==
    \A f \in Flows, g \in Flows :
        \A i \in CallsOf(f, "A"), j \in CallsOf(g, "A") :
            (/\ outs[f][i].blk # <<>>
             /\ outs[f][i].blk = outs[g][j].blk
             /\ outs[f][i].err = "none" /\ outs[g][j].err = "none") =>
                outs[f][i].val = outs[g][j].val

----------------------------------------------------------------------------
(* Tracking and caching *)

\* after this step instance v is in the singleton cache or in a scope frame
CachedAfter(v) ==
    \/ \E t \in Tokens : singletons'[t] = v
    \/ \E g \in DOMAIN frames' : \E d \in 1 .. Len(frames'[g]) :
          \E t \in Tokens : frames'[g][d].cache[t] = v

\* C35: when get/aget returns after it has appended an instance to the
\* tracked resources, that instance is in the cache of its scope: an
\* instance that is not cached is not tracked.
C35_TrackedOnlyIfCached ==
    [][Len(resources') > Len(resources) => CachedAfter(Last(resources').inst)]_vars

----------------------------------------------------------------------------
(* get and aget from the same state, with synchronous providers *)

\* what a call may read or change in the container and in the flow's context
Snapshot(f) ==
    [singletons |-> singletons, frames |-> frames, resources |-> resources,
     rstack |-> rstack[f], stats |-> stats, calls |-> calls,
     sync_lock |-> sync_lock, async_lock |-> async_lock]

\* the call of flow f has returned or raised
Completed(f) ==
    /\ stack[f] = <<>> /\ exc[f] = NoExc
    /\ outs[f] # <<>> /\ ~Pending(f)

\* Container.get(t), from a state that is remembered
TwinGet(f, t) ==
    /\ twin.phase = "idle"
    /\ stack[f] = <<>> /\ exc[f] = NoExc
    /\ Len(outs[f]) < 2 * MaxOvOps
    /\ CanRun(f)
    /\ twin' = [phase |-> "get", tok |-> t, pre |-> <<Snapshot(f)>>, post |-> <<>>]
    /\ Enter(f, t, "get", <<>>)
    /\ UNCHANGED <<kind, tscope, providers, token_scopes, strreg, di, hist, teardown,
                   lockvars, ctxvars, singletons, resources, ncancel>>

\* get has ended: what it left is remembered and the container is put back
\* into the state from which get was called
TwinRestore(f) ==
    /\ twin.phase = "get"
    /\ Completed(f)
    /\ twin' = [twin EXCEPT !.phase = "restored", !.post = <<Snapshot(f)>>]
    /\ singletons' = twin.pre[1].singletons
    /\ frames' = twin.pre[1].frames
    /\ resources' = twin.pre[1].resources
    /\ rstack' = [rstack EXCEPT ![f] = twin.pre[1].rstack]
    /\ stats' = twin.pre[1].stats
    /\ calls' = twin.pre[1].calls
    /\ sync_lock' = twin.pre[1].sync_lock
    /\ async_lock' = twin.pre[1].async_lock
    /\ UNCHANGED <<kind, tscope, providers, token_scopes, strreg, di, hist, teardown,
                   ovr, ovsaved, nblocks, stack, exc, outs, running, ncancel>>

\* Container.aget(t), from the state from which get(t) was called
TwinAget(f) ==
    /\ twin.phase = "restored"
    /\ CanRun(f)
    /\ twin' = [twin EXCEPT !.phase = "aget"]
    /\ Enter(f, twin.tok, "aget", <<>>)
    /\ UNCHANGED <<kind, tscope, providers, token_scopes, strreg, di, hist, teardown,
                   lockvars, ctxvars, singletons, resources, ncancel>>

\* aget has ended; the run goes on from the state it left
TwinDone(f) ==
    /\ twin.phase = "aget"
    /\ Completed(f)
    /\ twin' = NoTwin
    /\ UNCHANGED <<kind, tscope, providers, token_scopes, strreg, di, hist, teardown, stats,
                   lockvars, ctxvars, singletons, resources, calls, stack, rstack, exc,
                   outs, running, ncancel>>

\* the caller is a task, where get and aget can both be called;
\* synchronous providers only: any scopes, any dependencies, a provider that
\* returns, raises or returns a value of the wrong type, a token without
\* provider when nothing depends on it; instances expose close() or nothing
InitTwin ==
    /\ kind = [f \in Flows |-> IF f = SeqFlow THEN "task" ELSE "thread"]
    /\ tscope \in ScopeChoices
    /\ token_scopes = [t \in Tokens |-> "unset"]
    /\ \E d \in DepChoices, o \in {"ok", "raise", "badtype"}, c \in {"none", "close"} :
          providers = [t \in Tokens |->
                          IF t = "C" /\ d["B"] = NoDep THEN NoProvider
                          ELSE Closable(Prov("sync", d[t], IF t = "B" THEN o ELSE "ok"), c, "ok")]
    /\ InitRun

NextTwin ==
    \/ \E t \in Tokens : TwinGet(SeqFlow, t)
    \/ TwinRestore(SeqFlow)
    \/ TwinAget(SeqFlow)
    \/ TwinDone(SeqFlow)
    \/ Acquire(SeqFlow)
    \/ ProvCallDep(SeqFlow)
    \/ ProvFinish(SeqFlow)
    \/ Unwind(SeqFlow)
    \/ twin.phase = "idle" /\ EnterRequest(SeqFlow, MaxNest)
    \/ twin.phase = "idle" /\ ExitRequest(SeqFlow)

SpecTwin == InitTwin /\ [][NextTwin]_vars

\* what a caller sees of an outcome
Seen(o) == [tok |-> o.tok, val |-> o.val, err |-> o.err, chain |-> o.chain]

\* what the claim compares of a state
Compared(s) ==
    [singletons |-> s.singletons, frames |-> s.frames, resources |-> s.resources,
     rstack |-> s.rstack, stats |-> s.stats]

----------------------------------------------------------------------------
(* A provider that resolves from a second container *)

\* what a provider of container X asks of a second container Y: Y.get(A),
\* Y.get(B) or Y.get(C)
ParentDep == [A |-> "Y.A", B |-> "Y.B", C |-> "Y.C"]
ParentDeps == {ParentDep[u] : u \in Tokens}
AskedOfParent(d) == CHOOSE u \in Tokens : ParentDep[u] = d

\* the provider on top of flow f is about to resolve a token from Y
AsksParent(f) ==
    /\ stack[f] # <<>> /\ exc[f] = NoExc
    /\ Top(f).pc = "inprov"
    /\ Top(f).prov.dep \in ParentDeps /\ ~Top(f).depdone

\* Y.get(u) called by a provider of X. Y has a TRANSIENT provider without
\* dependencies for every token and no overrides; its _resolution_guard
\* reads the ContextVar of the module, the one that X's guard writes.
ProvCallParent(f) ==
    /\ AsksParent(f)
    /\ CanRun(f)
    /\ LET u == AskedOfParent(Top(f).prov.dep) IN
       IF InGuard(f, u)
       THEN RaiseTo(f, stack[f], Err("CircularDependencyError", u, rstack[f]))
       ELSE /\ stack' = [stack EXCEPT ![f][Len(stack[f])].depdone = TRUE]
            /\ UNCHANGED <<exc, outs, running>>
    /\ UNCHANGED <<stats, cfgvars, hist, teardown, lockvars, ctxvars, singletons, resources,
                   calls, rstack, ncancel>>

\* who resolves what: a provider that hands its own token to Y, a provider
\* reached through X that asks Y for the token X started from, one that asks
\* Y for a token X is not resolving, and cycles inside X
ParentChoices ==
    { [A |-> ParentDep["A"], B |-> NoDep,          C |-> NoDep],
      [A |-> "B",            B |-> ParentDep["A"], C |-> NoDep],
      [A |-> "B",            B |-> ParentDep["C"], C |-> NoDep],
      [A |-> "A",            B |-> ParentDep["B"], C |-> NoDep],
      [A |-> "B",            B |-> "A",            C |-> ParentDep["B"]] }

InitParent ==
    /\ InitSeqKind
    /\ \E s \in {"SINGLETON", "TRANSIENT"} : tscope = [t \in Tokens |-> s]
    /\ token_scopes = [t \in Tokens |-> "unset"]
    /\ \E d \in ParentChoices, k \in {"sync", "async"} :
          providers = [t \in Tokens |-> Prov(k, d[t], "ok")]
    /\ InitRun

NextParent ==
    \/ \E t \in Tokens : Call(SeqFlow, t, MaxSeqOps)
    \/ Acquire(SeqFlow)
    \/ ~AsksParent(SeqFlow) /\ ProvCallDep(SeqFlow)
    \/ ProvCallParent(SeqFlow)
    \/ ProvFinish(SeqFlow)
    \/ Unwind(SeqFlow)

SpecParent == InitParent /\ [][NextParent]_vars

\* C37: a provider of container X that resolves a token from a different
\* container Y, which has nothing under resolution, is not answered with
\* CircularDependencyError, whatever X is resolving on the flow.
C37_CycleOnlyInSameContainer ==
    [][\A f \in Flows : AsksParent(f) => exc'[f].kind # "CircularDependencyError"]_vars

----------------------------------------------------------------------------
(* clear() while a singleton is under construction *)

\* flow g is inside the provider of a SINGLETON token, under the token's lock
InSingletonProvider(g) ==
    /\ stack[g] # <<>> /\ exc[g] = NoExc
    /\ Top(g).pc = "inprov" /\ Top(g).lock # "none"

\* threads and tasks; A is a singleton with a synchronous or asynchronous
\* provider
InitClearRace ==
    /\ \E n \in 0 .. NFlows : kind = [f \in Flows |-> IF f <= n THEN "thread" ELSE "task"]
    /\ tscope = [t \in Tokens |-> "SINGLETON"]
    /\ token_scopes = [t \in Tokens |-> "unset"]
    /\ \E k \in {"sync", "async"} : providers = [t \in Tokens |-> Prov(k, NoDep, "ok")]
    /\ InitRun

\* clear() is called only while another flow is inside the provider
NextClearRace ==
    \/ \E f \in Flows : GetBySpec(f, "A")
    \/ \E f \in Flows : Acquire(f)
    \/ \E f \in Flows : ProvFinish(f)
    \/ \E f \in Flows : Unwind(f)
    \/ \E f, g \in Flows : f # g /\ InSingletonProvider(g) /\ CanRun(f) /\ Clear(f)

SpecClearRace == InitClearRace /\ [][NextClearRace]_vars

\* no call is in progress
AllIdle == \A f \in Flows : stack[f] = <<>> /\ exc[f] = NoExc

\* C38: when clear() has run while another flow was inside the provider of
\* a SINGLETON token and both have finished, with no call issued since, the
\* singleton cache is empty, and a get issued in that state raises
\* ResolutionError.
C38_ClearAtomic ==
    [][/\ (AllIdle' /\ hist' # <<>> /\ Last(hist').op = "clear") => singletons' = EmptyMap
       /\ \A f \in Flows, t \in Tokens :
             (Calls(f, t) /\ AllIdle /\ hist # <<>> /\ Last(hist).op = "clear") =>
                 Last(outs'[f]).err = "ResolutionError"]_vars

----------------------------------------------------------------------------
(* register with a scope, clear(), register without a scope *)

\* clear() has been called
WasCleared == \E i \in 1 .. Len(hist) : hist[i].op = "clear"

\* a scope is given to register only before clear(), none after it
NextClearScope ==
    \/ \E x \in {"SINGLETON", "TRANSIENT"} :
          ~WasCleared /\ Register(SeqFlow, "A", Prov("sync", NoDep, "ok"), x)
    \/ WasCleared /\ Register(SeqFlow, "A", Prov("sync", NoDep, "ok"), "unset")
    \/ GetBySpec(SeqFlow, "A")
    \/ Acquire(SeqFlow)
    \/ ProvFinish(SeqFlow)
    \/ Unwind(SeqFlow)
    \/ Clear(SeqFlow)

SpecClearScope == InitScope /\ [][NextClearScope]_vars

\* token t was registered after the latest clear()
RegisteredAfterClear(t) ==
    \E i, r \in 1 .. Len(hist) :
        /\ i < r
        /\ hist[i].op = "clear"
        /\ hist[r].op = "register" /\ hist[r].spec = t /\ hist[r].val = 1
        /\ \A j \in r + 1 .. Len(hist) : hist[j].op # "clear"

\* C39: a token registered with scope X, cleared away by clear() and
\* registered again without a scope argument is resolved with the scope the
\* token carries, not with X.
C39_ClearForgetsScopes ==
    \A t \in Tokens : RegisteredAfterClear(t) => EffScope(t) = tscope[t]

----------------------------------------------------------------------------
(* Sync exit over sync and async resources *)

\* C40: when the exit of `with container:` raises because a tracked
\* resource requires async cleanup (and not because a close() raised), it
\* has invoked the close() of no tracked resource, whatever the order in
\* which the sync and async resources were tracked.
C40_FailFastNoPartialCleanup ==
    \A m \in 1 .. Len(hist) :
        (/\ hist[m].op = "exit" /\ hist[m].err # "none"
         /\ NeedAsync(hist[m].val) # {}
         /\ \A p \in CleanupsOf(m) : hist[p].err # "RuntimeError") =>
            CleanupsOf(m) = {}

====
